---------------------------- MODULE Spec2Model ----------------------------
(* Session / identity bootstrap of the rentopia client.                    *)
(*                                                                         *)
(* The model follows context/AuthContext.js (AuthProvider): the React      *)
(* state of the provider, the onAuthStateChanged callback and the login,   *)
(* register and logout commands.  JavaScript runs every piece of code      *)
(* between two awaits to completion, and React applies the state setters   *)
(* of one such piece together, so one action of the model is: an awaited   *)
(* call completes (its effect on the collaborator happens) and the code    *)
(* that follows runs up to the next await.  The collaborators are the      *)
(* IdentityProvider (Firebase Auth), the RemoteRecordStore (Firestore      *)
(* profile documents) and the RoleCache (SecureStore key 'userRole').      *)
(*                                                                         *)
(* Spec and ReliableSpec follow one process run with its commands;         *)
(* BootSpec follows the bootstrap across process restarts; OwnerSpec adds  *)
(* an observer of who wrote the RoleCache item.  StoreSpec follows         *)
(* services/firestoreService.js: the module body that initialises the      *)
(* store handle db, and the document operations built on it.               *)
(* ListenSpec follows one listenToDocument / listenToCollection            *)
(* subscription of that service.  ProjectorSpec puts the UserProvider of   *)
(* context/UserContext.js under the AuthProvider.  RegistrationSpec        *)
(* follows the profile document register builds and writes.  DetailsSpec   *)
(* follows the renter's PropertyDetailsScreen, AgentListingsSpec the       *)
(* agent's AgentListingsScreen, and RoutingSpec the redirect effect of the *)
(* root layout (app/_layout.jsx) under the AuthProvider.                   *)
(* CallerSpec is Spec with an observer of what the Session held when a     *)
(* call was made; SubscriptionsSpec puts a firestoreService subscription   *)
(* beside the UserProvider's profile listener under the AuthProvider.      *)
EXTENDS Naturals, Sequences, FiniteSets, Bags

\* ------------------------------------------------------------------ bounds
\* Number of onAuthStateChanged callback invocations that may be suspended
\* at an await at the same time.
MaxHandlers == 2
\* Number of calls firestoreService issues to the RemoteRecordStore in a run.
MaxStoreCalls == 3
\* Number of snapshots a subscription delivers to its onData callback.
MaxEmissions == 3
\* Number of times the cancel function of a subscription is called.
MaxCancels == 2
\* Number of calls still in flight when a later call is made.
MaxOvertaken == 1
Slots == 0..MaxOvertaken
\* Number of calls of login, register and logout in a process run.
MaxCalls == 2
\* Number of notifications that may be undelivered at the same time.
MaxPending == 2
\* Number of conditions in the list passed to listenToCollection.
MaxConds == 2

\* ------------------------------------------------------------- value sets
None == "none"
Roles == {"renter", "agent"}
Uids == {"u1", "u2"}

VARIABLES
    isAuthenticated,  \* useState(false)
    user,             \* useState(null): the identity object, here its uid
    userRole,         \* useState(null)
    isLoadingAuth,    \* useState(true)
    userId,           \* useState(null)
    auth,             \* useState(null): TRUE once setAuth(firebaseAuth) ran
    initState,        \* position of initializeFirebase
    authUser,         \* IdentityProvider: the signed-in identity
    lastNotifiedUid,  \* IdentityProvider: identity of its last notification
    listening,        \* onAuthStateChanged listener registered
    accounts,         \* IdentityProvider: identities that exist
    notifs,           \* identity-changed notifications not yet delivered
    handlers,         \* bag of callback invocations suspended at an await
    latest,           \* identity carried by the last delivered notification
    roleCache,        \* SecureStore item 'userRole'
    profiles,         \* RemoteRecordStore: role of each profile document
    cmd,              \* the login / register / logout call made last
    overtaken,        \* the earlier calls still suspended at an await when a
                      \* later call was made, oldest first
    calls,            \* number of calls made in this process run
    storeReads,       \* getDoc calls issued since the command's sign-in/up
                      \* (before the first command: since process start)
    startCache,       \* observer: the RoleCache item at process start
    prevRun,          \* observer: identity the previous run cold-started for
    cacheOwner,       \* observer: identity whose flow wrote the RoleCache item
    beforeCall,       \* observer: the Session values and the RoleCache item
                      \* when the call made last was made
    config,           \* firestoreService: the imported firebaseConfig
    fsInit,           \* firestoreService: position of the module body
    db,               \* firestoreService: let db (TRUE once getFirestore ran)
    docs,             \* RemoteRecordStore: the documents of one collection
    storeCalls,       \* RemoteRecordStore: calls received from firestoreService
    fsOp,             \* firestoreService: the operation in flight or last
    sub,              \* firestoreService: the listenTo* subscription followed
    snapshotListeners, \* RemoteRecordStore: targets of the onSnapshot listeners
    mounted,          \* UserProvider: mounted and followed
    userProfile,      \* UserProvider: useState(null)
    isLoadingProfile, \* UserProvider: useState(true)
    profileError,     \* UserProvider: useState(null), the error state
    effectDeps,       \* UserProvider: dependencies of the last effect run
    unsubscribe,      \* UserProvider: let unsubscribe of the last effect run
    profileListeners, \* RemoteRecordStore: bag of listeners on profile documents
    regArgs,          \* register: the arguments of the call followed
    profileDoc,       \* RemoteRecordStore: the document register's setDoc wrote
    listing,          \* PropertyDetailsScreen: useState(null)
    agentProfile,     \* PropertyDetailsScreen: useState(null)
    isLoading,        \* the screen followed: useState(true)
    error,            \* the screen followed: useState(null)
    agentFetches,     \* PropertyDetailsScreen: bag of callback invocations
                      \* suspended at await getDocument, by their data
    layoutMounted,    \* RootLayoutContent: mounted and followed
    fonts,            \* RootLayoutContent: what useFonts has returned
    redirectDeps,     \* RootLayoutContent: dependencies of the last run of
                      \* the redirect effect
    route             \* expo-router: target of the last router.replace

session == <<isAuthenticated, user, userRole, isLoadingAuth, userId>>
idp == <<authUser, lastNotifiedUid, accounts, notifs>>
vars == <<isAuthenticated, user, userRole, isLoadingAuth, userId, auth,
          initState, authUser, lastNotifiedUid, listening, accounts, notifs,
          handlers, latest, roleCache, profiles, cmd, overtaken, calls, storeReads,
          startCache, prevRun, cacheOwner, beforeCall, config, fsInit, db,
          docs, storeCalls, fsOp, sub, snapshotListeners, mounted, userProfile,
          isLoadingProfile, profileError, effectDeps, unsubscribe,
          profileListeners, regArgs, profileDoc, listing, agentProfile,
          isLoading, error, agentFetches, layoutMounted, fonts,
          redirectDeps, route>>

\* The variables of the AuthProvider and its collaborators.
provider == <<isAuthenticated, user, userRole, isLoadingAuth, userId, auth,
              initState, authUser, lastNotifiedUid, listening, accounts,
              notifs, handlers, latest, roleCache, profiles, cmd, overtaken, calls, storeReads>>
\* The observers of the bootstrap, of the RoleCache writers and of the calls.
observers == <<startCache, prevRun, cacheOwner, beforeCall>>
\* The variables of services/firestoreService.js and its store.
service == <<config, fsInit, db, docs, storeCalls, fsOp>>
\* The subscription made through the service's listenTo* functions.
listens == <<sub, snapshotListeners>>
\* The UserProvider of context/UserContext.js and its profile listeners.
projector == <<mounted, userProfile, isLoadingProfile, profileError,
               effectDeps, unsubscribe, profileListeners>>
\* The profile document register builds and writes.
registration == <<regArgs, profileDoc>>
\* The screen followed (the renter's PropertyDetailsScreen or the agent's
\* AgentListingsScreen) with the state of the PropertyDetailsScreen.
details == <<listing, agentProfile, isLoading, error, agentFetches>>
\* The RootLayoutContent of app/_layout.jsx and the router it drives.
layout == <<layoutMounted, fonts, redirectDeps, route>>
screens == <<details, layout>>
\* Everything outside the AuthProvider and its observers.
components == <<service, listens, projector, registration, screens>>

NoCommand == [op |-> "none", pc |-> "idle", uid |-> None, role |-> None,
              result |-> None]

\* !Object.keys(firebaseConfig).length || !firebaseConfig.projectId
ConfigIncomplete == config \notin {"valid", "withAppId"}

\* ------------------------------------------------------------------ Init
\* Process start.  The Session is fresh; what survives a restart is the
\* IdentityProvider's persisted identity, the RoleCache and the remote store.
ProcessStart ==
    /\ isAuthenticated = FALSE
    /\ user = None
    /\ userRole = None
    /\ isLoadingAuth = TRUE
    /\ userId = None
    /\ auth = FALSE
    /\ initState = "start"
    /\ accounts \in SUBSET Uids
    /\ profiles \in [Uids -> Roles \cup {None}]
    /\ \A u \in Uids : u \notin accounts => profiles[u] = None
    /\ authUser \in accounts \cup {None}
    /\ lastNotifiedUid = None
    /\ listening = FALSE
    /\ notifs = <<>>
    /\ handlers = EmptyBag
    /\ latest = None
    /\ roleCache \in Roles \cup {None}
    /\ cmd = NoCommand
    /\ overtaken = <<>>
    /\ calls = 0
    /\ storeReads = 0

\* A document of the service's collection: a payload and the two timestamp
\* fields the service writes.  NoDoc stands for "no such document".
DocIds == {"d1", "d2"}
Payloads == {"a", "b"}
NoDoc == [v |-> None, createdAt |-> None, updatedAt |-> None]
NoOp == [name |-> None, pc |-> "idle", id |-> None, given |-> NoDoc,
         data |-> NoDoc, outcome |-> None, value |-> {}]

\* The observers are switched off.
CallsUnobserved ==
    [followed |-> FALSE, user |-> None, userId |-> None, userRole |-> None,
     isAuthenticated |-> FALSE, roleCache |-> None]

Unobserved ==
    /\ startCache = None
    /\ prevRun = None
    /\ cacheOwner = "off"
    /\ beforeCall = CallsUnobserved

\* services/firestoreService.js is not exercised.
ServiceIdle ==
    /\ config = "valid"
    /\ fsInit = "load"
    /\ db = FALSE
    /\ docs = [d \in DocIds |-> NoDoc]
    /\ storeCalls = 0
    /\ fsOp = NoOp

\* No listenTo* subscription has been made.
NoSub == [kind |-> None, id |-> None, conds |-> <<>>, state |-> "none",
          emissions |-> 0, last |-> {}, errors |-> 0, error |-> None,
          cancels |-> 0]

ListensIdle ==
    /\ sub = NoSub
    /\ snapshotListeners = {}

\* userProfile null; the dependencies of an effect that has not run.
NoProfile == [id |-> None, role |-> None]
NoDeps == [ran |-> FALSE, userId |-> None, isAuthenticated |-> FALSE,
           isLoadingAuth |-> FALSE]

\* The dependencies of the UserProvider's effect as the Session has them.
CurrentDeps == [ran |-> TRUE, userId |-> userId,
                isAuthenticated |-> isAuthenticated,
                isLoadingAuth |-> isLoadingAuth]

\* const [fontsLoaded, fontError] = useFonts(...)
fontsLoaded == fonts = "loaded"
fontError == fonts = "error"

\* The dependencies of the root layout's redirect effect as the Session and
\* useFonts have them.
RedirectDeps == <<isAuthenticated, userRole, isLoadingAuth, fontsLoaded,
                  fontError>>

\* No run of the redirect effect is due.
RedirectFlushed == ~layoutMounted \/ redirectDeps = RedirectDeps

\* React runs the pending effects of a render before it renders the next
\* state update: a step of the AuthProvider waits for a due effect of the
\* UserProvider mounted under it and of the root layout that consumes it.
EffectFlushed ==
    /\ ~mounted \/ effectDeps = CurrentDeps
    /\ RedirectFlushed

\* The UserProvider with the state it is constructed with.
ProjectorStart ==
    /\ userProfile = NoProfile
    /\ isLoadingProfile = TRUE
    /\ profileError = None
    /\ effectDeps = NoDeps
    /\ unsubscribe = None
    /\ profileListeners = EmptyBag

\* The UserProvider is not followed.
ProjectorIdle ==
    /\ mounted = FALSE
    /\ ProjectorStart

\* A key that an object does not have.
Absent == "absent"
NoArgs == [email |-> None, role |-> None, uid |-> None,
           agentDetails |-> [agentAccountType |-> Absent,
                             lasreraNumber |-> Absent, cacNumber |-> Absent]]
NoProfileDoc == [email |-> None, role |-> None, userId |-> None,
                 createdAt |-> None, agentAccountType |-> Absent,
                 lasreraNumber |-> Absent, cacNumber |-> Absent]

\* No register call is followed.
RegistrationIdle ==
    /\ regArgs = NoArgs
    /\ profileDoc = NoProfileDoc

\* listing null, agentProfile null.
NoListing == [id |-> None, agentId |-> None]

\* The PropertyDetailsScreen with the state it is constructed with.
DetailsStart ==
    /\ listing = NoListing
    /\ agentProfile = NoProfile
    /\ isLoading = TRUE
    /\ error = None
    /\ agentFetches = EmptyBag

\* The RootLayoutContent as it mounts: fonts loading, the redirect effect
\* not yet run, no redirect made.
LayoutStart ==
    /\ fonts = "loading"
    /\ redirectDeps = <<>>
    /\ route = None

\* The RootLayoutContent is not followed.
LayoutIdle ==
    /\ layoutMounted = FALSE
    /\ LayoutStart

\* No screen is followed.
ScreensIdle == DetailsStart /\ LayoutIdle

Init ==
    /\ ProcessStart
    /\ Unobserved
    /\ ServiceIdle
    /\ ListensIdle
    /\ ProjectorIdle
    /\ RegistrationIdle
    /\ ScreensIdle


\* ============================================== register: the profile data
\* register builds the profile document from its arguments and the uid of
\* the identity just created, and writes it with setDoc.  email stands for
\* the fields copied as given (email, firstName, lastName, phoneNumber).
AgentDetails ==
    [agentAccountType : {Absent, "individual", "company"},
     lasreraNumber : {Absent, "L1"}, cacNumber : {Absent, "C1"}]
RegisterArgs ==
    [email : {"e1", "e2"}, role : Roles, uid : Uids,
     agentDetails : AgentDetails]

\* Mutant of SpreadDetails: agentDetails is spread whatever the role.
SpreadDetailsAnyRole(a) == a.agentDetails

\* ...(role === 'agent' && agentDetails ? agentDetails : {})
SpreadDetails(a) ==
    IF a.role = "agent" THEN a.agentDetails ELSE NoArgs.agentDetails

\* const profileData = { email, role, ..., createdAt: new Date(),
\*                       userId: currentUserId, ...agent details }
ProfileData(a) ==
    [email |-> a.email, role |-> a.role, userId |-> a.uid,
     createdAt |-> "client",
     agentAccountType |-> SpreadDetails(a).agentAccountType,
     lasreraNumber |-> SpreadDetails(a).lasreraNumber,
     cacNumber |-> SpreadDetails(a).cacNumber]


\* ------------------------------------------------- IdentityProvider contract
\* Sign-in, sign-up and sign-out change the signed-in identity; registered
\* listeners are notified when the identity differs from the one last notified.
IdPChange(u) ==
    /\ authUser' = u
    /\ IF listening /\ u # lastNotifiedUid
       THEN /\ Len(notifs) < MaxPending
            /\ notifs' = Append(notifs, u)
            /\ lastNotifiedUid' = u
       ELSE UNCHANGED <<notifs, lastNotifiedUid>>

\* ------------------------------------------------- Session setter groups
\* setUser(currentUser); setUserId(currentUser.uid)
SetIdentity(u) ==
    /\ user' = u
    /\ userId' = u
    /\ UNCHANGED <<isAuthenticated, userRole>>

\* setUserRole(role); setIsAuthenticated(true)
AdoptRole(r) ==
    /\ userRole' = r
    /\ isAuthenticated' = TRUE
    /\ UNCHANGED <<user, userId>>

\* setIsAuthenticated(false); setUser(null); setUserRole(null); setUserId(null)
ClearSession ==
    /\ isAuthenticated' = FALSE
    /\ user' = None
    /\ userRole' = None
    /\ userId' = None

\* Mutant of CatchReset: the catch block without setIsAuthenticated(false).
CatchResetKeepsAuthenticated ==
    /\ user' = None
    /\ userRole' = None
    /\ UNCHANGED <<isAuthenticated, userId>>

\* catch block of login and register:
\* setIsAuthenticated(false); setUser(null); setUserRole(null)
CatchReset ==
    /\ isAuthenticated' = FALSE
    /\ user' = None
    /\ userRole' = None
    /\ UNCHANGED userId

CommandInFlight == cmd.pc \notin {"idle", "done"}

\* A getDoc is issued; counted before the first command and while a command
\* is past its sign-in / sign-up.
IssueGetDoc ==
    storeReads' = IF \/ cmd.op = "none"
                     \/ CommandInFlight /\ cmd.pc \notin {"signIn", "signUp"}
                  THEN storeReads + 1 ELSE storeReads

\* The observer of the RoleCache writers follows a write (or, with None, a
\* delete) of the item by a flow for identity u; "off" switches it off.
CacheWrittenBy(u) ==
    cacheOwner' = IF cacheOwner = "off" THEN "off" ELSE u

\* ------------------------------------------------------ initializeFirebase
\* The try block runs through without a custom token: instances are set, the
\* listener is registered and receives the current identity.
InitializeOk ==
    /\ initState = "start"
    /\ auth' = TRUE
    /\ listening' = TRUE
    /\ notifs' = <<authUser>>
    /\ lastNotifiedUid' = authUser
    /\ initState' = "ready"
    /\ UNCHANGED <<session, authUser, accounts, handlers, latest, roleCache,
                   profiles, cmd, overtaken, calls, storeReads>>
    /\ EffectFlushed
    /\ UNCHANGED <<observers, components>>

\* With __initial_auth_token defined: instances are set, then
\* await signInWithCustomToken(firebaseAuth, initialAuthToken).
InitializeCustomToken ==
    /\ initState = "start"
    /\ auth' = TRUE
    /\ initState' = "customToken"
    /\ UNCHANGED <<session, idp, listening, handlers, latest, roleCache,
                   profiles, cmd, overtaken, calls, storeReads>>
    /\ EffectFlushed
    /\ UNCHANGED <<observers, components>>

\* signInWithCustomToken resolves: the token's identity is signed in, the
\* listener is registered and receives it.
InitializeTokenAccepted ==
    /\ initState = "customToken"
    /\ \E tok \in accounts : authUser' = tok
    /\ listening' = TRUE
    /\ notifs' = <<authUser'>>
    /\ lastNotifiedUid' = authUser'
    /\ initState' = "ready"
    /\ UNCHANGED <<session, auth, accounts, handlers, latest, roleCache,
                   profiles, cmd, overtaken, calls, storeReads>>
    /\ EffectFlushed
    /\ UNCHANGED <<observers, components>>

\* catch block: setIsLoadingAuth(false), the Session is reset, and the
\* RoleCache delete is awaited.
InitializeCatch ==
    /\ isLoadingAuth' = FALSE
    /\ ClearSession
    /\ initState' = "catch"
    /\ UNCHANGED <<idp, listening, handlers, latest, roleCache, profiles,
                   cmd, overtaken, calls, storeReads>>
    /\ EffectFlushed
    /\ UNCHANGED <<observers, components>>

\* signInWithCustomToken rejects: the catch block runs.
InitializeTokenRejected ==
    /\ initState = "customToken"
    /\ UNCHANGED auth
    /\ InitializeCatch

\* initializeApp, initializeAuth or getFirestore throws, before setAuth: the
\* catch block runs.
InitializeThrows ==
    /\ initState = "start"
    /\ UNCHANGED auth
    /\ InitializeCatch

\* Mutant of InitializeCatchDone: the catch ends without deleting the
\* RoleCache item.
InitializeCatchKeepsCache ==
    /\ initState = "catch"
    /\ initState' = "failed"
    /\ UNCHANGED <<session, auth, idp, listening, handlers, latest, roleCache,
                   profiles, cmd, overtaken, calls, storeReads>>
    /\ EffectFlushed
    /\ UNCHANGED <<observers, components>>

\* await SecureStore.deleteItemAsync('userRole') of the catch completed.
InitializeCatchDone ==
    /\ initState = "catch"
    /\ roleCache' = None
    /\ initState' = "failed"
    /\ UNCHANGED <<session, auth, idp, listening, handlers, latest, profiles,
                   cmd, overtaken, calls, storeReads>>
    /\ CacheWrittenBy(None)
    /\ EffectFlushed
    /\ UNCHANGED <<startCache, prevRun, beforeCall, components>>

\* ------------------------------------------- onAuthStateChanged callback
\* An invocation is a record [pc, uid, role]: the await it is suspended at,
\* currentUser.uid and the role it is about to cache.
Suspended == BagToSet(handlers)
HandlerPcs == {"getItem", "getDoc", "setItem", "delMissing", "signOut", "delNull"}
Invocations ==
    [pc : HandlerPcs \ {"setItem", "delNull"}, uid : Uids, role : {None}]
        \cup [pc : {"setItem"}, uid : Uids, role : Roles]
        \cup [pc : {"delNull"}, uid : {None}, role : {None}]
CanStartHandler == BagCardinality(handlers) < MaxHandlers

StartHandler(pc, u) ==
    handlers' = handlers (+) SetToBag({[pc |-> pc, uid |-> u, role |-> None]})
EndHandler(h) == handlers' = handlers (-) SetToBag({h})
GoHandler(h, pc, r) ==
    handlers' = (handlers (-) SetToBag({h}))
                (+) SetToBag({[h EXCEPT !.pc = pc, !.role = r]})

\* setIsLoadingAuth(false) at the end of the callback
AuthCheckComplete == isLoadingAuth' = FALSE

\* A notification carrying an identity is delivered: the callback sets the
\* identity and awaits the RoleCache read.
DeliverIdentity ==
    /\ notifs # <<>>
    /\ Head(notifs) # None
    /\ CanStartHandler
    /\ notifs' = Tail(notifs)
    /\ latest' = Head(notifs)
    /\ SetIdentity(Head(notifs))
    /\ StartHandler("getItem", Head(notifs))
    /\ UNCHANGED <<isLoadingAuth, auth, initState, authUser, lastNotifiedUid,
                   listening, accounts, roleCache, profiles, cmd, overtaken, calls, storeReads>>
    /\ EffectFlushed
    /\ UNCHANGED <<observers, components>>

\* A notification carrying no identity is delivered: the callback clears the
\* Session and awaits the RoleCache delete.
DeliverNoIdentity ==
    /\ notifs # <<>>
    /\ Head(notifs) = None
    /\ CanStartHandler
    /\ notifs' = Tail(notifs)
    /\ latest' = None
    /\ ClearSession
    /\ StartHandler("delNull", None)
    /\ UNCHANGED <<isLoadingAuth, auth, initState, authUser, lastNotifiedUid,
                   listening, accounts, roleCache, profiles, cmd, overtaken, calls, storeReads>>
    /\ EffectFlushed
    /\ UNCHANGED <<observers, components>>

\* Mutant of HandlerCacheHit: the cached role is adopted and the profile
\* document is fetched all the same.
HandlerCacheHitRefetches(h) ==
    /\ h \in Suspended
    /\ h.pc = "getItem"
    /\ roleCache # None
    /\ AdoptRole(roleCache)
    /\ GoHandler(h, "getDoc", None)
    /\ IssueGetDoc
    /\ UNCHANGED <<isLoadingAuth, auth, initState, idp, listening, latest,
                   roleCache, profiles, cmd, overtaken, calls>>
    /\ EffectFlushed
    /\ UNCHANGED <<observers, components>>

\* getItemAsync returned a role: adopt it, the auth check is complete.
HandlerCacheHit(h) ==
    /\ h \in Suspended
    /\ h.pc = "getItem"
    /\ roleCache # None
    /\ AdoptRole(roleCache)
    /\ AuthCheckComplete
    /\ EndHandler(h)
    /\ UNCHANGED <<auth, initState, idp, listening, latest, roleCache,
                   profiles, cmd, overtaken, calls, storeReads>>
    /\ EffectFlushed
    /\ UNCHANGED <<observers, components>>

\* getItemAsync returned nothing: fetch the profile document.
HandlerCacheMiss(h) ==
    /\ h \in Suspended
    /\ h.pc = "getItem"
    /\ roleCache = None
    /\ GoHandler(h, "getDoc", None)
    /\ IssueGetDoc
    /\ UNCHANGED <<session, auth, initState, idp, listening, latest,
                   roleCache, profiles, cmd, overtaken, calls>>
    /\ EffectFlushed
    /\ UNCHANGED <<observers, components>>

\* Mutant of HandlerProfileFound: setIsLoadingAuth(false) runs before the
\* cache write is awaited.
HandlerProfileFoundEndsLoading(h) ==
    /\ h \in Suspended
    /\ h.pc = "getDoc"
    /\ profiles[h.uid] # None
    /\ AdoptRole(profiles[h.uid])
    /\ AuthCheckComplete
    /\ GoHandler(h, "setItem", profiles[h.uid])
    /\ UNCHANGED <<auth, initState, idp, listening, latest, roleCache,
                   profiles, cmd, overtaken, calls, storeReads>>
    /\ EffectFlushed
    /\ UNCHANGED <<observers, components>>

\* getDoc returned an existing profile: adopt its role, await the cache write.
HandlerProfileFound(h) ==
    /\ h \in Suspended
    /\ h.pc = "getDoc"
    /\ profiles[h.uid] # None
    /\ AdoptRole(profiles[h.uid])
    /\ GoHandler(h, "setItem", profiles[h.uid])
    /\ UNCHANGED <<isLoadingAuth, auth, initState, idp, listening, latest,
                   roleCache, profiles, cmd, overtaken, calls, storeReads>>
    /\ EffectFlushed
    /\ UNCHANGED <<observers, components>>

\* Mutant of HandlerCacheWritten: the role is not written to the RoleCache.
HandlerCacheNotWritten(h) ==
    /\ h \in Suspended
    /\ h.pc = "setItem"
    /\ AuthCheckComplete
    /\ EndHandler(h)
    /\ UNCHANGED <<isAuthenticated, user, userRole, userId, auth, initState,
                   idp, listening, latest, roleCache, profiles, cmd, overtaken, calls,
                   storeReads>>
    /\ EffectFlushed
    /\ UNCHANGED <<observers, components>>

\* setItemAsync completed: the auth check is complete.
HandlerCacheWritten(h) ==
    /\ h \in Suspended
    /\ h.pc = "setItem"
    /\ roleCache' = h.role
    /\ AuthCheckComplete
    /\ EndHandler(h)
    /\ UNCHANGED <<isAuthenticated, user, userRole, userId, auth, initState,
                   idp, listening, latest, profiles, cmd, overtaken, calls, storeReads>>
    /\ CacheWrittenBy(h.uid)
    /\ EffectFlushed
    /\ UNCHANGED <<startCache, prevRun, beforeCall, components>>

\* getDoc returned no profile: clear the Session, await the cache delete.
HandlerProfileMissing(h) ==
    /\ h \in Suspended
    /\ h.pc = "getDoc"
    /\ profiles[h.uid] = None
    /\ ClearSession
    /\ GoHandler(h, "delMissing", None)
    /\ UNCHANGED <<isLoadingAuth, auth, initState, idp, listening, latest,
                   roleCache, profiles, cmd, overtaken, calls, storeReads>>
    /\ EffectFlushed
    /\ UNCHANGED <<observers, components>>

\* deleteItemAsync completed (profile missing): await the forced sign-out.
HandlerCacheDeleted(h) ==
    /\ h \in Suspended
    /\ h.pc = "delMissing"
    /\ roleCache' = None
    /\ GoHandler(h, "signOut", None)
    /\ UNCHANGED <<session, auth, initState, idp, listening, latest,
                   profiles, cmd, overtaken, calls, storeReads>>
    /\ CacheWrittenBy(None)
    /\ EffectFlushed
    /\ UNCHANGED <<startCache, prevRun, beforeCall, components>>

\* signOut completed (profile missing): the auth check is complete.
HandlerSignedOut(h) ==
    /\ h \in Suspended
    /\ h.pc = "signOut"
    /\ IdPChange(None)
    /\ AuthCheckComplete
    /\ EndHandler(h)
    /\ UNCHANGED <<isAuthenticated, user, userRole, userId, auth, initState,
                   listening, accounts, latest, roleCache, profiles, cmd, overtaken, calls,
                   storeReads>>
    /\ EffectFlushed
    /\ UNCHANGED <<observers, components>>

\* deleteItemAsync completed (no identity): the auth check is complete.
HandlerNoIdentityDone(h) ==
    /\ h \in Suspended
    /\ h.pc = "delNull"
    /\ roleCache' = None
    /\ AuthCheckComplete
    /\ EndHandler(h)
    /\ UNCHANGED <<isAuthenticated, user, userRole, userId, auth, initState,
                   idp, listening, latest, profiles, cmd, overtaken, calls, storeReads>>
    /\ CacheWrittenBy(None)
    /\ EffectFlushed
    /\ UNCHANGED <<startCache, prevRun, beforeCall, components>>

\* An awaited call of the callback rejects: the callback's promise rejects and
\* nothing after the await runs (no catch inside the callback).
HandlerRejects(h) ==
    /\ h \in Suspended
    /\ EndHandler(h)
    /\ UNCHANGED <<session, auth, initState, idp, listening, latest,
                   roleCache, profiles, cmd, overtaken, calls, storeReads>>
    /\ EffectFlushed
    /\ UNCHANGED <<observers, components>>


\* ------------------------------------------------------------- commands
\* The root layout renders its loading view, and no screen, while the fonts
\* are unsettled or isLoadingAuth is true (app/_layout.jsx line 95); the
\* controls of the screens are disabled while isLoadingAuth is true.  Where
\* the root layout is not followed its fonts are taken as settled.  Nothing
\* else holds a call back: a call can be made while an earlier one is
\* suspended at an await, once a callback or another call has set
\* isLoadingAuth to false.
CanCall ==
    ~(\/ layoutMounted /\ ~fontsLoaded /\ ~fontError
      \/ isLoadingAuth)

\* Which screen group the root layout has routed to.
AuthScreens == isAuthenticated = FALSE
RoleScreens == isAuthenticated = TRUE

\* The observer of the calls follows a call: what the Session and the
\* RoleCache hold as the call is made.
SessionAtCall ==
    [followed |-> TRUE, user |-> user, userId |-> userId,
     userRole |-> userRole, isAuthenticated |-> isAuthenticated,
     roleCache |-> roleCache]

Call(op, u, r, pc) ==
    /\ CanCall
    /\ cmd' = [op |-> op, pc |-> pc, uid |-> u, role |-> r, result |-> None]
    /\ calls < MaxCalls
    /\ calls' = calls + 1
    /\ IF CommandInFlight
       THEN /\ Len(overtaken) < MaxOvertaken
            /\ overtaken' = Append(overtaken, cmd)
       ELSE UNCHANGED overtaken
    /\ isLoadingAuth' = TRUE
    /\ storeReads' = 0
    /\ UNCHANGED <<isAuthenticated, user, userRole, userId, auth, initState,
                   idp, listening, handlers, latest, roleCache, profiles>>
    /\ EffectFlushed
    /\ beforeCall' = IF beforeCall.followed THEN SessionAtCall ELSE beforeCall
    /\ UNCHANGED <<startCache, prevRun, cacheOwner, components>>

\* The call in slot k: slot 0 holds the call made last, the slots from 1 on
\* the calls it overtook.
CallAt(k) == IF k = 0 THEN cmd ELSE overtaken[k]

\* The call in slot k is suspended at an await.
Running(k) == IF k = 0 THEN CommandInFlight ELSE k <= Len(overtaken)

\* The call in slot k goes on as d; an overtaken call that settled is no
\* longer followed.
Put(k, d) ==
    IF k = 0
    THEN /\ cmd' = d
         /\ UNCHANGED <<overtaken, calls>>
    ELSE /\ UNCHANGED <<cmd, calls>>
         /\ overtaken' =
               IF d.pc = "done"
               THEN SubSeq(overtaken, 1, k - 1)
                        \o SubSeq(overtaken, k + 1, Len(overtaken))
               ELSE [overtaken EXCEPT ![k] = d]

Go(k, pc) == Put(k, [CallAt(k) EXCEPT !.pc = pc])

\* finally { setIsLoadingAuth(false) }, then the command returns or throws.
Finally(k, result) ==
    /\ isLoadingAuth' = FALSE
    /\ Put(k, [CallAt(k) EXCEPT !.pc = "done", !.result = result])

\* catch (error) { reset; throw error } finally { ... }
CatchAndRethrow(k, result) ==
    /\ CatchReset
    /\ Finally(k, result)

\* ---- login(email, password)
LoginCall == AuthScreens /\ \E u \in Uids : Call("login", u, None, "signIn")

\* signInWithEmailAndPassword rejects (also when auth is still null).
LoginSignInRejected(k) ==
    /\ Running(k)
    /\ CallAt(k).op = "login" /\ CallAt(k).pc = "signIn"
    /\ CatchAndRethrow(k, "SignInRejected")
    /\ UNCHANGED <<auth, initState, idp, listening, handlers, latest,
                   roleCache, profiles, storeReads>>
    /\ EffectFlushed
    /\ UNCHANGED <<observers, components>>

\* signInWithEmailAndPassword resolves: set the identity, fetch the profile.
LoginSignedIn(k) ==
    /\ Running(k)
    /\ CallAt(k).op = "login" /\ CallAt(k).pc = "signIn"
    /\ auth
    /\ CallAt(k).uid \in accounts
    /\ IdPChange(CallAt(k).uid)
    /\ SetIdentity(CallAt(k).uid)
    /\ Go(k, "getDoc")
    /\ IF k = 0 THEN storeReads' = 1 ELSE IssueGetDoc
    /\ UNCHANGED <<isLoadingAuth, auth, initState, listening, accounts,
                   handlers, latest, roleCache, profiles>>
    /\ EffectFlushed
    /\ UNCHANGED <<observers, components>>

\* getDoc rejects.
LoginFetchRejected(k) ==
    /\ Running(k)
    /\ CallAt(k).op = "login" /\ CallAt(k).pc = "getDoc"
    /\ CatchAndRethrow(k, "FetchError")
    /\ UNCHANGED <<auth, initState, idp, listening, handlers, latest,
                   roleCache, profiles, storeReads>>
    /\ EffectFlushed
    /\ UNCHANGED <<observers, components>>

\* getDoc returned an existing profile: adopt its role, await the cache write.
LoginProfileFound(k) ==
    /\ Running(k)
    /\ CallAt(k).op = "login" /\ CallAt(k).pc = "getDoc"
    /\ profiles[CallAt(k).uid] # None
    /\ AdoptRole(profiles[CallAt(k).uid])
    /\ Put(k, [CallAt(k) EXCEPT !.pc = "setItem", !.role = profiles[CallAt(k).uid]])
    /\ UNCHANGED <<isLoadingAuth, auth, initState, idp, listening, handlers,
                   latest, roleCache, profiles, storeReads>>
    /\ EffectFlushed
    /\ UNCHANGED <<observers, components>>

\* getDoc returned no profile: setIsAuthenticated(false), await signOut.
LoginProfileMissing(k) ==
    /\ Running(k)
    /\ CallAt(k).op = "login" /\ CallAt(k).pc = "getDoc"
    /\ profiles[CallAt(k).uid] = None
    /\ isAuthenticated' = FALSE
    /\ Go(k, "signOut")
    /\ UNCHANGED <<user, userRole, isLoadingAuth, userId, auth, initState,
                   idp, listening, handlers, latest, roleCache, profiles,
                   storeReads>>
    /\ EffectFlushed
    /\ UNCHANGED <<observers, components>>

\* The forced signOut resolved: throw the profile-not-found error.
LoginForcedSignOut(k) ==
    /\ Running(k)
    /\ CallAt(k).op = "login" /\ CallAt(k).pc = "signOut"
    /\ IdPChange(None)
    /\ CatchAndRethrow(k, "ProfileMissing")
    /\ UNCHANGED <<auth, initState, listening, accounts, handlers, latest,
                   roleCache, profiles, storeReads>>
    /\ EffectFlushed
    /\ UNCHANGED <<observers, components>>

\* The forced signOut rejected.
LoginForcedSignOutRejected(k) ==
    /\ Running(k)
    /\ CallAt(k).op = "login" /\ CallAt(k).pc = "signOut"
    /\ CatchAndRethrow(k, "SignOutError")
    /\ UNCHANGED <<auth, initState, idp, listening, handlers, latest,
                   roleCache, profiles, storeReads>>
    /\ EffectFlushed
    /\ UNCHANGED <<observers, components>>

\* setItemAsync resolved: login returns.
LoginReturns(k) ==
    /\ Running(k)
    /\ CallAt(k).op = "login" /\ CallAt(k).pc = "setItem"
    /\ roleCache' = CallAt(k).role
    /\ Finally(k, "ok")
    /\ UNCHANGED <<isAuthenticated, user, userRole, userId, auth, initState,
                   idp, listening, handlers, latest, profiles, storeReads>>
    /\ CacheWrittenBy(CallAt(k).uid)
    /\ EffectFlushed
    /\ UNCHANGED <<startCache, prevRun, beforeCall, components>>

\* setItemAsync rejected.
LoginCacheRejected(k) ==
    /\ Running(k)
    /\ CallAt(k).op = "login" /\ CallAt(k).pc = "setItem"
    /\ CatchAndRethrow(k, "CacheError")
    /\ UNCHANGED <<auth, initState, idp, listening, handlers, latest,
                   roleCache, profiles, storeReads>>
    /\ EffectFlushed
    /\ UNCHANGED <<observers, components>>

\* ---- register(email, password, role, ...)
RegisterCall ==
    AuthScreens /\ \E u \in Uids, r \in Roles : Call("register", u, r, "signUp")

\* createUserWithEmailAndPassword rejects (email in use, auth null, ...).
RegisterSignUpRejected(k) ==
    /\ Running(k)
    /\ CallAt(k).op = "register" /\ CallAt(k).pc = "signUp"
    /\ CatchAndRethrow(k, "SignUpRejected")
    /\ UNCHANGED <<auth, initState, idp, listening, handlers, latest,
                   roleCache, profiles, storeReads>>
    /\ EffectFlushed
    /\ UNCHANGED <<observers, components>>

\* createUserWithEmailAndPassword resolves: the identity exists and is signed
\* in; set the identity and await the profile write.
RegisterSignedUp(k) ==
    /\ Running(k)
    /\ CallAt(k).op = "register" /\ CallAt(k).pc = "signUp"
    /\ auth
    /\ CallAt(k).uid \notin accounts
    /\ accounts' = accounts \cup {CallAt(k).uid}
    /\ IdPChange(CallAt(k).uid)
    /\ SetIdentity(CallAt(k).uid)
    /\ Go(k, "setDoc")
    /\ storeReads' = IF k = 0 THEN 0 ELSE storeReads
    /\ UNCHANGED <<isLoadingAuth, auth, initState, listening, handlers,
                   latest, roleCache, profiles>>
    /\ EffectFlushed
    /\ UNCHANGED <<observers, components>>

\* setDoc resolved: adopt the role, await the cache write.
RegisterProfileWritten(k) ==
    /\ Running(k)
    /\ CallAt(k).op = "register" /\ CallAt(k).pc = "setDoc"
    /\ profiles' =
          [profiles EXCEPT
              ![CallAt(k).uid] = ProfileData([NoArgs EXCEPT !.role = CallAt(k).role,
                                                      !.uid = CallAt(k).uid]).role]
    /\ AdoptRole(CallAt(k).role)
    /\ Go(k, "setItem")
    /\ UNCHANGED <<isLoadingAuth, auth, initState, idp, listening, handlers,
                   latest, roleCache, storeReads>>
    /\ EffectFlushed
    /\ UNCHANGED <<observers, components>>

\* setDoc rejected.
RegisterWriteRejected(k) ==
    /\ Running(k)
    /\ CallAt(k).op = "register" /\ CallAt(k).pc = "setDoc"
    /\ CatchAndRethrow(k, "WriteFailed")
    /\ UNCHANGED <<auth, initState, idp, listening, handlers, latest,
                   roleCache, profiles, storeReads>>
    /\ EffectFlushed
    /\ UNCHANGED <<observers, components>>

\* setItemAsync resolved: register returns.
RegisterReturns(k) ==
    /\ Running(k)
    /\ CallAt(k).op = "register" /\ CallAt(k).pc = "setItem"
    /\ roleCache' = CallAt(k).role
    /\ Finally(k, "ok")
    /\ UNCHANGED <<isAuthenticated, user, userRole, userId, auth, initState,
                   idp, listening, handlers, latest, profiles, storeReads>>
    /\ CacheWrittenBy(CallAt(k).uid)
    /\ EffectFlushed
    /\ UNCHANGED <<startCache, prevRun, beforeCall, components>>

\* setItemAsync rejected.
RegisterCacheRejected(k) ==
    /\ Running(k)
    /\ CallAt(k).op = "register" /\ CallAt(k).pc = "setItem"
    /\ CatchAndRethrow(k, "CacheError")
    /\ UNCHANGED <<auth, initState, idp, listening, handlers, latest,
                   roleCache, profiles, storeReads>>
    /\ EffectFlushed
    /\ UNCHANGED <<observers, components>>

\* ---- logout()
LogoutCall == RoleScreens /\ Call("logout", None, None, "signOut")

\* Mutant of LogoutSession: logout hand-sets the Session Unauthenticated.
LogoutSessionOptimistic(k, result) ==
    /\ Finally(k, result)
    /\ ClearSession

\* What logout does to the Session once signOut settled: only the finally.
LogoutSession(k, result) ==
    /\ Finally(k, result)
    /\ UNCHANGED <<isAuthenticated, user, userRole, userId>>

\* signOut resolved: logout returns.
LogoutReturns(k) ==
    /\ Running(k)
    /\ CallAt(k).op = "logout" /\ CallAt(k).pc = "signOut"
    /\ auth
    /\ IdPChange(None)
    /\ LogoutSession(k, "ok")
    /\ UNCHANGED <<auth, initState, listening, accounts, handlers, latest,
                   roleCache, profiles, storeReads>>
    /\ EffectFlushed
    /\ UNCHANGED <<observers, components>>

\* signOut rejected (also when auth is still null): rethrown.
LogoutRejected(k) ==
    /\ Running(k)
    /\ CallAt(k).op = "logout" /\ CallAt(k).pc = "signOut"
    /\ LogoutSession(k, "SignOutError")
    /\ UNCHANGED <<auth, initState, idp, listening, handlers, latest,
                   roleCache, profiles, storeReads>>
    /\ EffectFlushed
    /\ UNCHANGED <<observers, components>>

\* ------------------------------------------------------------------ Next
Initialize ==
    \/ InitializeOk
    \/ InitializeCustomToken
    \/ InitializeTokenAccepted
    \/ InitializeTokenRejected
    \/ InitializeThrows
    \/ InitializeCatchDone

Deliver == DeliverIdentity \/ DeliverNoIdentity

HandlerStep(h) ==
    \/ HandlerCacheHit(h)
    \/ HandlerCacheMiss(h)
    \/ HandlerProfileFound(h)
    \/ HandlerCacheWritten(h)
    \/ HandlerProfileMissing(h)
    \/ HandlerCacheDeleted(h)
    \/ HandlerSignedOut(h)
    \/ HandlerNoIdentityDone(h)

LoginStep(k) ==
    \/ LoginSignInRejected(k)
    \/ LoginSignedIn(k)
    \/ LoginFetchRejected(k)
    \/ LoginProfileFound(k)
    \/ LoginProfileMissing(k)
    \/ LoginForcedSignOut(k)
    \/ LoginForcedSignOutRejected(k)
    \/ LoginReturns(k)
    \/ LoginCacheRejected(k)

RegisterStep(k) ==
    \/ RegisterSignUpRejected(k)
    \/ RegisterSignedUp(k)
    \/ RegisterProfileWritten(k)
    \/ RegisterWriteRejected(k)
    \/ RegisterReturns(k)
    \/ RegisterCacheRejected(k)

LogoutStep(k) == LogoutReturns(k) \/ LogoutRejected(k)

Login == LoginCall \/ \E k \in Slots : LoginStep(k)

Register == RegisterCall \/ \E k \in Slots : RegisterStep(k)

Logout == LogoutCall \/ \E k \in Slots : LogoutStep(k)

Next ==
    \/ Initialize
    \/ Deliver
    \/ \E h \in Invocations : HandlerStep(h)
    \/ \E h \in Invocations : HandlerRejects(h)
    \/ Login
    \/ Register
    \/ Logout

Spec == Init /\ [][Next]_vars

\* The callback's awaited calls (RoleCache, getDoc, signOut) never reject.
NextReliable ==
    \/ Initialize
    \/ Deliver
    \/ \E h \in Invocations : HandlerStep(h)
    \/ Login
    \/ Register
    \/ Logout

ReliableSpec == Init /\ [][NextReliable]_vars

\* ------------------------------------------------------- process restarts
\* The run was a cold start that ended Authenticated: the RoleCache item was
\* absent at process start, no command was called, nothing is pending.
ColdStartDone ==
    /\ startCache = None
    /\ initState = "ready"
    /\ cmd = NoCommand
    /\ notifs = <<>>
    /\ handlers = EmptyBag
    /\ isLoadingAuth = FALSE
    /\ isAuthenticated
    /\ latest # None

\* The process ends and starts again: the AuthProvider is constructed anew,
\* the pending callbacks are gone; the IdentityProvider's persisted identity,
\* the RoleCache and the remote store survive.
Restart ==
    /\ initState # "start"
    /\ prevRun' = IF ColdStartDone THEN latest ELSE None
    /\ startCache' = roleCache
    /\ isAuthenticated' = FALSE
    /\ user' = None
    /\ userRole' = None
    /\ isLoadingAuth' = TRUE
    /\ userId' = None
    /\ auth' = FALSE
    /\ initState' = "start"
    /\ lastNotifiedUid' = None
    /\ listening' = FALSE
    /\ notifs' = <<>>
    /\ handlers' = EmptyBag
    /\ latest' = None
    /\ cmd' = NoCommand
    /\ overtaken' = <<>>
    /\ calls' = 0
    /\ storeReads' = 0
    /\ UNCHANGED <<authUser, accounts, roleCache, profiles, cacheOwner,
                   beforeCall, components>>

\* Process runs in which no command is called, with restarts.
BootInit ==
    /\ ProcessStart
    /\ startCache = roleCache
    /\ prevRun = None
    /\ cacheOwner = "off"
    /\ beforeCall = CallsUnobserved
    /\ ServiceIdle
    /\ ListensIdle
    /\ ProjectorIdle
    /\ RegistrationIdle
    /\ ScreensIdle

BootNext ==
    \/ Initialize
    \/ Deliver
    \/ \E h \in Invocations : HandlerStep(h)
    \/ \E h \in Invocations : HandlerRejects(h)
    \/ Restart

BootSpec == BootInit /\ [][BootNext]_vars

\* Reliable collaborators, with the observer of the RoleCache writers: the
\* writer of an item found at process start is unknown.
OwnerInit ==
    /\ ProcessStart
    /\ startCache = None
    /\ prevRun = None
    /\ cacheOwner = IF roleCache = None THEN None ELSE "unknown"
    /\ beforeCall = CallsUnobserved
    /\ ServiceIdle
    /\ ListensIdle
    /\ ProjectorIdle
    /\ RegistrationIdle
    /\ ScreensIdle

OwnerSpec == OwnerInit /\ [][NextReliable]_vars

\* One process run with its commands, with the observer of the calls.
CallerInit ==
    /\ ProcessStart
    /\ startCache = None
    /\ prevRun = None
    /\ cacheOwner = "off"
    /\ beforeCall = [CallsUnobserved EXCEPT !.followed = TRUE]
    /\ ServiceIdle
    /\ ListensIdle
    /\ ProjectorIdle
    /\ RegistrationIdle
    /\ ScreensIdle

CallerSpec == CallerInit /\ [][Next]_vars


\* =========================================== services/firestoreService.js
\* The module body initialises the store handle db once; every exported
\* operation checks the handle, issues one call to the store and awaits it.
\* One operation is followed at a time.
\* "valid" has a projectId and no appId, "withAppId" has both.
Configs == {"valid", "withAppId", "empty", "noProjectId"}
CrudOps == {"addDocument", "setDocument", "updateDocument", "getDocument",
            "deleteDocument", "getAllDocuments"}
\* The data a caller passes: a payload, and possibly its own (client clock)
\* createdAt / updatedAt.
CallerData ==
    [v : Payloads, createdAt : {None, "client"}, updatedAt : {None, "client"}]
SeedDoc == [v |-> "a", createdAt |-> "server", updatedAt |-> None]

\* The provider is not mounted: its variables keep their start values.
ProviderIdle ==
    /\ ProcessStart
    /\ accounts = {}
    /\ roleCache = None

StoreInit ==
    /\ ProviderIdle
    /\ Unobserved
    /\ config \in Configs
    /\ fsInit = "load"
    /\ db = FALSE
    /\ docs \in [DocIds -> {NoDoc, SeedDoc}]
    /\ storeCalls = 0
    /\ fsOp = NoOp
    /\ ListensIdle
    /\ ProjectorIdle
    /\ RegistrationIdle
    /\ ScreensIdle

\* ---- module body
\* !Object.keys(firebaseConfig).length || !firebaseConfig.projectId:
\* the error is logged and db stays undefined.
ModuleConfigMissing ==
    /\ fsInit = "load"
    /\ ConfigIncomplete
    /\ fsInit' = "done"
    /\ UNCHANGED <<config, db, docs, storeCalls, fsOp>>
    /\ UNCHANGED <<provider, observers, listens, projector, registration,
                   screens>>

\* initializeApp, getFirestore and getStorage ran through.
ModuleInitialized ==
    /\ fsInit = "load"
    /\ ~ConfigIncomplete
    /\ db' = TRUE
    /\ fsInit' = "done"
    /\ UNCHANGED <<config, docs, storeCalls, fsOp>>
    /\ UNCHANGED <<provider, observers, listens, projector, registration,
                   screens>>

\* One of them threw and the catch logged it: db is undefined when
\* initializeApp or getFirestore threw, assigned when getStorage threw.
ModuleInitThrows ==
    /\ fsInit = "load"
    /\ ~ConfigIncomplete
    /\ db' \in BOOLEAN
    /\ fsInit' = "done"
    /\ UNCHANGED <<config, docs, storeCalls, fsOp>>
    /\ UNCHANGED <<provider, observers, listens, projector, registration,
                   screens>>

\* ---- the operations
\* Mutant of DbUndefined: the handle is never found undefined.
DbUndefinedIgnored == FALSE

\* if (!db)
DbUndefined == db = FALSE

\* { ...data, createdAt: serverTimestamp() }
WithCreatedAt(data) == [data EXCEPT !.createdAt = "server"]
\* Mutant of WithUpdatedAt: an updatedAt given by the caller is kept.
WithUpdatedAtUnlessGiven(data) ==
    [data EXCEPT !.updatedAt = IF @ = None THEN "server" ELSE @]

\* { ...data, updatedAt: serverTimestamp() }
WithUpdatedAt(data) == [data EXCEPT !.updatedAt = "server"]
\* setDoc with { merge: true } and updateDoc: the fields written replace the
\* document's, the others stay.
Merged(old, new) ==
    [f \in DOMAIN new |-> IF new[f] # None THEN new[f] ELSE old[f]]

\* The module body has run: its exports can be called.
Loaded == fsInit = "done"

\* An operation is called with the data given: it throws "Firestore is not
\* initialized." (logged and rethrown by its catch) when db is undefined,
\* else it issues its call to the store, passing data, and awaits it.
Invoke(name, id, given, data) ==
    /\ fsOp.pc # "await"
    /\ storeCalls < MaxStoreCalls
    /\ IF DbUndefined
       THEN /\ fsOp' = [name |-> name, pc |-> "done", id |-> None,
                        given |-> NoDoc, data |-> NoDoc,
                        outcome |-> "StoreUninitialized", value |-> {}]
            /\ UNCHANGED storeCalls
       ELSE /\ fsOp' = [name |-> name, pc |-> "await", id |-> id,
                        given |-> given, data |-> data, outcome |-> None,
                        value |-> {}]
            /\ storeCalls' = storeCalls + 1
    /\ UNCHANGED <<config, fsInit, db, docs>>
    /\ UNCHANGED <<provider, observers, listens, projector, registration,
                   screens>>

\* The awaited call completed: the operation returns value (getDocument:
\* the empty set stands for null).
Completed(name, value) ==
    /\ fsOp.pc = "await"
    /\ fsOp.name = name
    /\ fsOp' = [fsOp EXCEPT !.pc = "done", !.data = NoDoc,
                            !.outcome = "ok", !.value = value]
    /\ UNCHANGED <<config, fsInit, db, storeCalls>>
    /\ UNCHANGED <<provider, observers, listens, projector, registration,
                   screens>>

\* addDoc generates the id of the new document.
AddDocumentCall ==
    /\ Loaded
    /\ \E id \in DocIds, data \in CallerData :
          /\ docs[id] = NoDoc
          /\ Invoke("addDocument", id, data, WithCreatedAt(data))

AddDocumentDone ==
    /\ Completed("addDocument", {})
    /\ docs' = [docs EXCEPT ![fsOp.id] = fsOp.data]

SetDocumentCall ==
    /\ Loaded
    /\ \E id \in DocIds, data \in CallerData :
          Invoke("setDocument", id, data, WithUpdatedAt(data))

SetDocumentDone ==
    /\ Completed("setDocument", {})
    /\ docs' = [docs EXCEPT ![fsOp.id] = Merged(docs[fsOp.id], fsOp.data)]

UpdateDocumentCall ==
    /\ Loaded
    /\ \E id \in DocIds, data \in CallerData :
          Invoke("updateDocument", id, data, WithUpdatedAt(data))

\* updateDoc fails for a document that does not exist.
UpdateDocumentDone ==
    /\ Completed("updateDocument", {})
    /\ docs[fsOp.id] # NoDoc
    /\ docs' = [docs EXCEPT ![fsOp.id] = Merged(docs[fsOp.id], fsOp.data)]

GetDocumentCall ==
    /\ Loaded
    /\ \E id \in DocIds : Invoke("getDocument", id, NoDoc, NoDoc)

\* docSnap.exists() ? { id: docSnap.id, ...docSnap.data() } : null
GetDocumentDone ==
    /\ Completed("getDocument",
                 IF docs[fsOp.id] = NoDoc THEN {}
                 ELSE {[id |-> fsOp.id, data |-> docs[fsOp.id]]})
    /\ UNCHANGED docs

DeleteDocumentCall ==
    /\ Loaded
    /\ \E id \in DocIds : Invoke("deleteDocument", id, NoDoc, NoDoc)

DeleteDocumentDone ==
    /\ Completed("deleteDocument", {})
    /\ docs' = [docs EXCEPT ![fsOp.id] = NoDoc]

GetAllDocumentsCall == Loaded /\ Invoke("getAllDocuments", None, NoDoc, NoDoc)

\* documents.push({ id: doc.id, ...doc.data() }) for every document
GetAllDocumentsDone ==
    /\ Completed("getAllDocuments",
                 {[id |-> d, data |-> docs[d]] :
                     d \in {x \in DocIds : docs[x] # NoDoc}})
    /\ UNCHANGED docs

\* The awaited call rejects: the catch logs the error and rethrows it.
StoreCallRejected ==
    /\ fsOp.pc = "await"
    /\ fsOp' = [fsOp EXCEPT !.pc = "done", !.data = NoDoc,
                            !.outcome = "StoreError"]
    /\ UNCHANGED <<config, fsInit, db, docs, storeCalls>>
    /\ UNCHANGED <<provider, observers, listens, projector, registration,
                   screens>>

ModuleBody == ModuleConfigMissing \/ ModuleInitialized \/ ModuleInitThrows

StoreNext ==
    \/ ModuleBody
    \/ AddDocumentCall \/ AddDocumentDone
    \/ SetDocumentCall \/ SetDocumentDone
    \/ UpdateDocumentCall \/ UpdateDocumentDone
    \/ GetDocumentCall \/ GetDocumentDone
    \/ DeleteDocumentCall \/ DeleteDocumentDone
    \/ GetAllDocumentsCall \/ GetAllDocumentsDone
    \/ StoreCallRejected

StoreSpec == StoreInit /\ [][StoreNext]_vars

\* ------------------------------------------------ listenTo* subscriptions
\* listenToDocument and listenToCollection register an onSnapshot listener
\* and return its unsubscribe function.  One subscription is followed; the
\* documents of the collection are also written by other clients.
OtherDoc == [v |-> "b", createdAt |-> "client", updatedAt |-> "server"]
StoredDocs == {NoDoc, SeedDoc, OtherDoc}

\* The conditions a caller passes: { field, operator, value }.
Rank == [a |-> 1, b |-> 2]
Conditions ==
    [field : {"v"}, operator : {"==", ">="}, value : Payloads]
        \cup {[field |-> "createdAt", operator |-> "==", value |-> "server"]}
ConditionLists ==
    UNION {[1..n -> Conditions] : n \in 0..MaxConds}

\* A property that an object does not have reads as undefined.
Undefined == "undefined"

\* where(condition.field, condition.operator, condition.value): the
\* constraint built from the three properties read off the condition.
Where(c) == [field |-> c.field, operator |-> c.operator, value |-> c.value]

\* firebase/firestore: where() throws for a field path that is not a string.
WhereThrows(c) == c.field = Undefined

\* RemoteRecordStore: where(field, operator, value) holds of a document
\* that has the field with a value in the relation.
Satisfies(d, c) ==
    /\ d[c.field] # None
    /\ IF c.operator = "==" THEN d[c.field] = c.value
       ELSE Rank[d[c.field]] >= Rank[c.value]

\* Mutant of ApplyConditions: every condition replaces the query built so
\* far instead of refining it.
RECURSIVE ApplyLastCondition(_, _)
ApplyLastCondition(q, conds) ==
    IF conds = <<>> THEN q
    ELSE ApplyLastCondition({Head(conds)}, Tail(conds))

\* conditions.forEach(condition => { q = query(q, where(...)); }): the
\* query is the collection refined by every condition in turn.
RECURSIVE ApplyConditions(_, _)
ApplyConditions(q, conds) ==
    IF conds = <<>> THEN q
    ELSE ApplyConditions(q \cup {Where(Head(conds))}, Tail(conds))

\* RemoteRecordStore: the documents a query (a set of where constraints on
\* the collection) currently matches.
QueryResult(q) ==
    {d \in DocIds : docs[d] # NoDoc /\ \A c \in q : Satisfies(docs[d], c)}

\* querySnapshot.forEach(doc => documents.push({ id: doc.id, ...doc.data() }))
CollectionView(conds) ==
    {[id |-> d, data |-> docs[d]] : d \in QueryResult(ApplyConditions({}, conds))}

\* Mutant of DocumentView: a missing document is delivered like a listener
\* error, not through the data callback.
DocumentViewOrError(id) ==
    IF docs[id] # NoDoc
    THEN [to |-> "callback", error |-> None,
          value |-> {[id |-> id, data |-> docs[id]]}]
    ELSE [to |-> "onError", error |-> "NoDocument", value |-> {}]

\* docSnap.exists() ? callback({ id: docSnap.id, ...docSnap.data() })
\*                  : callback(null)      (the empty set stands for null)
DocumentView(id) ==
    IF docs[id] # NoDoc
    THEN [to |-> "callback", error |-> None,
          value |-> {[id |-> id, data |-> docs[id]]}]
    ELSE [to |-> "callback", error |-> None, value |-> {}]

\* What the listener of the subscription is registered for.
Target(s) == [kind |-> s.kind, id |-> s.id, conds |-> s.conds]

\* Mutant of Refused: the failure is not reported to onError.
RefusedSilently(kind, err) ==
    [NoSub EXCEPT !.kind = kind, !.state = "noop"]

\* onError(new Error(...)); return () => {};
Refused(kind, err) ==
    [NoSub EXCEPT !.kind = kind, !.state = "noop", !.errors = 1,
                  !.error = err]

\* onSnapshot(...) registered the listener; its unsubscribe is returned.
Subscribed(kind, id, conds) ==
    [NoSub EXCEPT !.kind = kind, !.id = id, !.conds = conds,
                  !.state = "live"]

ListenFrame ==
    /\ UNCHANGED service
    /\ UNCHANGED <<provider, observers, projector, registration, screens>>

\* listenToDocument(collectionPath, docId, callback, onError).  doc() throws
\* for a path that names no collection, and nothing catches it.
ListenToDocument(id, pathOk) ==
    IF DbUndefined
    THEN /\ sub' = Refused("document", "StoreUninitialized")
         /\ UNCHANGED snapshotListeners
    ELSE IF ~pathOk
    THEN /\ sub' = [NoSub EXCEPT !.kind = "document", !.state = "threw"]
         /\ UNCHANGED snapshotListeners
    ELSE /\ sub' = Subscribed("document", id, <<>>)
         /\ snapshotListeners' = snapshotListeners \cup {Target(sub')}

ListenToDocumentCall ==
    /\ Loaded
    /\ sub.state = "none"
    /\ \E id \in DocIds, pathOk \in BOOLEAN : ListenToDocument(id, pathOk)
    /\ ListenFrame

\* listenToCollection(collectionPath, conditions, callback, onError).
\* collection() throwing is caught and reported to onError; where()
\* throwing in the forEach is not caught.
ListenToCollection(conds, pathOk) ==
    IF DbUndefined
    THEN /\ sub' = Refused("collection", "StoreUninitialized")
         /\ UNCHANGED snapshotListeners
    ELSE IF ~pathOk
    THEN /\ sub' = Refused("collection", "BadCollectionRef")
         /\ UNCHANGED snapshotListeners
    ELSE IF \E i \in 1..Len(conds) : WhereThrows(conds[i])
    THEN /\ sub' = [NoSub EXCEPT !.kind = "collection", !.state = "threw"]
         /\ UNCHANGED snapshotListeners
    ELSE /\ sub' = Subscribed("collection", None, conds)
         /\ snapshotListeners' = snapshotListeners \cup {Target(sub')}

ListenToCollectionCall ==
    /\ Loaded
    /\ sub.state = "none"
    /\ \E conds \in ConditionLists, pathOk \in BOOLEAN :
          ListenToCollection(conds, pathOk)
    /\ ListenFrame

\* RemoteRecordStore: a registered listener has a snapshot to deliver: the
\* first one, or one for a change of what it listens to.
Emits(view) ==
    /\ Target(sub) \in snapshotListeners
    /\ sub.emissions < MaxEmissions
    /\ sub.emissions = 0 \/ sub.last # view

\* What the subscription's caller has received after one more invocation
\* of callback (to = "callback") or of onError.
Receive(s, e) ==
    IF e.to = "callback"
    THEN [s EXCEPT !.emissions = @ + 1, !.last = e.value]
    ELSE [s EXCEPT !.errors = @ + 1, !.error = e.error]

\* The snapshot callback of listenToDocument runs.
DocumentSnapshot ==
    /\ sub.kind = "document"
    /\ Emits(DocumentView(sub.id).value)
    /\ sub' = Receive(sub, DocumentView(sub.id))
    /\ UNCHANGED snapshotListeners
    /\ ListenFrame

\* The snapshot callback of listenToCollection runs.
CollectionSnapshot ==
    /\ sub.kind = "collection"
    /\ Emits(CollectionView(sub.conds))
    /\ sub' = Receive(sub, [to |-> "callback", error |-> None,
                            value |-> CollectionView(sub.conds)])
    /\ UNCHANGED snapshotListeners
    /\ ListenFrame

\* The listener fails: the error callback logs and calls onError(error);
\* the store has removed the listener.
ListenerError ==
    /\ Target(sub) \in snapshotListeners
    /\ sub' = [Receive(sub, [to |-> "onError", error |-> "StoreError",
                             value |-> {}])
                 EXCEPT !.state = "errored"]
    /\ snapshotListeners' = snapshotListeners \ {Target(sub)}
    /\ ListenFrame

\* Mutant of Cancelled: the function returned is the no-op in every case.
CancelledNowhere(s) == [s EXCEPT !.cancels = @ + 1]

\* The function listenTo* returned is called: the no-op, or the store's
\* unsubscribe, which removes the listener if it is still registered.
Cancelled(s) ==
    [s EXCEPT !.cancels = @ + 1,
              !.state = IF s.state = "live" THEN "cancelled" ELSE @]

Cancel ==
    /\ sub.state \in {"noop", "live", "errored", "cancelled"}
    /\ sub.cancels < MaxCancels
    /\ sub' = Cancelled(sub)
    /\ snapshotListeners' =
          IF sub'.state = "live" THEN snapshotListeners
          ELSE snapshotListeners \ {Target(sub)}
    /\ ListenFrame

\* RemoteRecordStore: some client writes or deletes a document.
RemoteWrite ==
    /\ Loaded
    /\ \E id \in DocIds, d \in StoredDocs :
          /\ docs[id] # d
          /\ docs' = [docs EXCEPT ![id] = d]
    /\ UNCHANGED <<config, fsInit, db, storeCalls, fsOp>>
    /\ UNCHANGED <<provider, observers, listens, projector, registration,
                   screens>>

ListenInit ==
    /\ ProviderIdle
    /\ Unobserved
    /\ config \in Configs
    /\ fsInit = "load"
    /\ db = FALSE
    /\ docs \in [DocIds -> StoredDocs]
    /\ storeCalls = 0
    /\ fsOp = NoOp
    /\ ListensIdle
    /\ ProjectorIdle
    /\ RegistrationIdle
    /\ ScreensIdle

ListenNext ==
    \/ ModuleBody
    \/ ListenToDocumentCall
    \/ ListenToCollectionCall
    \/ DocumentSnapshot
    \/ CollectionSnapshot
    \/ ListenerError
    \/ Cancel
    \/ RemoteWrite

ListenSpec == ListenInit /\ [][ListenNext]_vars



\* ================================================== context/UserContext.js
\* The UserProvider projects the profile document of the Session's identity
\* into userProfile.  Its effect runs after a render in which userId,
\* isAuthenticated or isLoadingAuth differ from those of its last run; the
\* cleanup of the last run comes first.
\* docSnap.exists() ? { id: docSnap.id, ...docSnap.data() } : null
ProfileView(u) ==
    IF profiles[u] = None THEN NoProfile ELSE [id |-> u, role |-> profiles[u]]

\* RemoteRecordStore: unsubscribe removes the listener it was returned for,
\* if it is still registered; () => {} removes nothing.
Unsubscribed(l) ==
    IF l # None /\ BagIn(l, profileListeners)
    THEN profileListeners (-) SetToBag({l})
    ELSE profileListeners

\* Mutant of Cleanup: the cleanup leaves the listener registered.
CleanupForgets == profileListeners

\* return () => unsubscribe();
Cleanup == Unsubscribed(unsubscribe)

\* Mutant of ProjectorFrame: the UserProvider's callbacks drop the Session's
\* role.
ProjectorFrameDropsRole ==
    /\ userRole' = None
    /\ UNCHANGED <<isAuthenticated, user, isLoadingAuth, userId, auth,
                   initState, authUser, lastNotifiedUid, listening, accounts,
                   notifs, handlers, latest, roleCache, profiles, cmd, overtaken, calls,
                   storeReads>>
    /\ UNCHANGED <<observers, service, listens, registration, screens>>

\* The effect and the listener callbacks write the UserProvider's state only.
ProjectorFrame ==
    /\ UNCHANGED <<provider, observers, service, listens, registration,
                   screens>>

\* The effect is due.
EffectDue ==
    /\ mounted
    /\ effectDeps # CurrentDeps
    /\ effectDeps' = CurrentDeps
    /\ UNCHANGED mounted

\* if (!isLoadingAuth && isAuthenticated && userId)
CanFetchProfile == ~isLoadingAuth /\ isAuthenticated /\ userId # None

\* The configuration is empty or has no projectId: logged, loading ends.
EffectConfigMissing ==
    /\ EffectDue
    /\ CanFetchProfile
    /\ ConfigIncomplete
    /\ isLoadingProfile' = FALSE
    /\ profileError' = None
    /\ unsubscribe' = None
    /\ profileListeners' = Cleanup
    /\ UNCHANGED userProfile
    /\ ProjectorFrame

\* const localAppId = firebaseConfig.appId || firebaseConfig.projectId
LocalAppId == IF config = "withAppId" THEN "appId" ELSE "projectId"

\* What a snapshot of artifacts/<localAppId>/users/<u>/profiles/<u> holds.
\* The profile documents are written and read under artifacts/<projectId>
\* (AuthProvider, firestorePaths); nothing is stored under the appId.
ListenedProfile(u) ==
    IF LocalAppId = "projectId" THEN ProfileView(u) ELSE NoProfile

\* onSnapshot registered the listener on the document of userId under
\* artifacts/<localAppId>.
EffectSubscribes ==
    /\ EffectDue
    /\ CanFetchProfile
    /\ ~ConfigIncomplete
    /\ isLoadingProfile' = TRUE
    /\ profileError' = None
    /\ unsubscribe' = userId
    /\ profileListeners' = Cleanup (+) SetToBag({userId})
    /\ UNCHANGED userProfile
    /\ ProjectorFrame

\* initializeApp, getFirestore, doc or onSnapshot threw: the catch.
EffectSetupThrows ==
    /\ EffectDue
    /\ CanFetchProfile
    /\ ~ConfigIncomplete
    /\ isLoadingProfile' = FALSE
    /\ profileError' = "SetupError"
    /\ userProfile' = NoProfile
    /\ unsubscribe' = None
    /\ profileListeners' = Cleanup
    /\ ProjectorFrame

\* else if (!isAuthenticated)
EffectClears ==
    /\ EffectDue
    /\ ~CanFetchProfile
    /\ ~isAuthenticated
    /\ userProfile' = NoProfile
    /\ isLoadingProfile' = FALSE
    /\ profileError' = None
    /\ unsubscribe' = None
    /\ profileListeners' = Cleanup
    /\ ProjectorFrame

\* Neither branch: authenticated while isLoadingAuth, or without a userId.
EffectWaits ==
    /\ EffectDue
    /\ ~CanFetchProfile
    /\ isAuthenticated
    /\ unsubscribe' = None
    /\ profileListeners' = Cleanup
    /\ UNCHANGED <<userProfile, isLoadingProfile, profileError>>
    /\ ProjectorFrame

\* The snapshot callback of a registered listener runs.
ProfileSnapshot ==
    /\ \E l \in BagToSet(profileListeners) :
          userProfile' = ListenedProfile(l)
    /\ isLoadingProfile' = FALSE
    /\ UNCHANGED <<mounted, profileError, effectDeps, unsubscribe,
                   profileListeners>>
    /\ ProjectorFrame

\* The error callback of a registered listener runs; the store has removed
\* the listener.
ProfileListenerError ==
    /\ \E l \in BagToSet(profileListeners) :
          profileListeners' = profileListeners (-) SetToBag({l})
    /\ profileError' = "StoreError"
    /\ isLoadingProfile' = FALSE
    /\ userProfile' = NoProfile
    /\ UNCHANGED <<mounted, effectDeps, unsubscribe>>
    /\ ProjectorFrame

\* The UserProvider unmounts: the cleanup of the last effect run; the state
\* of the component is gone.
ProjectorUnmount ==
    /\ mounted
    /\ mounted' = FALSE
    /\ profileListeners' = Cleanup
    /\ userProfile' = NoProfile
    /\ isLoadingProfile' = TRUE
    /\ profileError' = None
    /\ effectDeps' = NoDeps
    /\ unsubscribe' = None
    /\ ProjectorFrame

Projector ==
    \/ EffectConfigMissing
    \/ EffectSubscribes
    \/ EffectSetupThrows
    \/ EffectClears
    \/ EffectWaits
    \/ ProfileSnapshot
    \/ ProfileListenerError
    \/ ProjectorUnmount

\* The AuthProvider with reliable collaborators and the UserProvider under
\* it: two accounts, the second possibly without a profile document, no
\* cached role; the configuration has a projectId (and an appId or none) or
\* no projectId.
ProjectorInit ==
    /\ ProcessStart
    /\ accounts = Uids
    /\ profiles["u1"] = "renter"
    /\ profiles["u2"] \in {"agent", None}
    /\ roleCache = None
    /\ Unobserved
    /\ config \in {"valid", "withAppId", "noProjectId"}
    /\ fsInit = "load"
    /\ db = FALSE
    /\ docs = [d \in DocIds |-> NoDoc]
    /\ storeCalls = 0
    /\ fsOp = NoOp
    /\ ListensIdle
    /\ RegistrationIdle
    /\ ScreensIdle
    /\ mounted = TRUE
    /\ ProjectorStart

ProjectorNext ==
    \/ Initialize
    \/ Deliver
    \/ \E h \in Invocations : HandlerStep(h)
    \/ Login
    \/ Logout
    \/ Projector

ProjectorSpec == ProjectorInit /\ [][ProjectorNext]_vars



\* ================================================ register: the document
\* await setDoc(userDocRef, profileData)
RegisterWritesProfileData ==
    /\ regArgs # NoArgs
    /\ profileDoc = NoProfileDoc
    /\ profileDoc' = ProfileData(regArgs)
    /\ UNCHANGED regArgs
    /\ UNCHANGED <<provider, observers, service, listens, projector,
                   screens>>

RegistrationInit ==
    /\ ProviderIdle
    /\ Unobserved
    /\ ServiceIdle
    /\ ListensIdle
    /\ ProjectorIdle
    /\ ScreensIdle
    /\ regArgs \in RegisterArgs
    /\ profileDoc = NoProfileDoc

RegistrationSpec == RegistrationInit /\ [][RegisterWritesProfileData]_vars


\* ======================================= app/(renter)/property/[id].js
\* The PropertyDetailsScreen subscribes to the listing document named by
\* its id parameter; its data callback is async: it sets the listing and
\* awaits getDocument for the profile of the listing's agentId.  Several
\* invocations of the callback can be suspended at that await at once.
\* The Session the screens are shown under: the bootstrap has ended
\* authenticated as u with role r and nothing is pending.
SignedIn(u, r) ==
    /\ isAuthenticated = TRUE
    /\ user = u
    /\ userRole = r
    /\ isLoadingAuth = FALSE
    /\ userId = u
    /\ auth = TRUE
    /\ initState = "ready"
    /\ authUser = u
    /\ lastNotifiedUid = u
    /\ listening = TRUE
    /\ accounts = Uids
    /\ notifs = <<>>
    /\ handlers = EmptyBag
    /\ latest = u
    /\ roleCache = r
    /\ cmd = NoCommand
    /\ overtaken = <<>>
    /\ calls = 0
    /\ storeReads = 0

\* The documents of the public listings collection: a listing names its
\* agent, or has no agentId.
Listings ==
    [v : {"a"}, createdAt : {"server"}, updatedAt : {None},
     agentId : Uids \cup {None}]

\* The data of a callback invocation suspended at await getDocument: the id
\* and the agentId of the listing it was called with.
Fetches == [id : DocIds, agentId : Uids]

\* The screen's callbacks write the screen's state and the subscription.
DetailsFrame ==
    /\ UNCHANGED service
    /\ UNCHANGED <<provider, observers, projector, registration, layout>>

\* The effect of the mount: no id, or listenToDocument(path, id, ...), whose
\* onError runs at once when db is undefined.
DetailsEffect ==
    /\ Loaded
    /\ sub.state = "none"
    /\ isLoading
    /\ error = None
    /\ \E id \in DocIds \cup {None} :
          IF id = None
          THEN /\ error' = "NoListingId"
               /\ isLoading' = FALSE
               /\ UNCHANGED <<sub, snapshotListeners>>
          ELSE /\ ListenToDocument(id, TRUE)
               /\ error' = IF DbUndefined THEN "LoadFailed" ELSE None
               /\ isLoading' = ~DbUndefined
    /\ UNCHANGED <<listing, agentProfile, agentFetches>>
    /\ DetailsFrame

\* The id parameter changes: the cleanup cancels the subscription and the
\* effect subscribes to the other listing.  listing and agentProfile are
\* not reset, and the suspended callbacks stay suspended.
DetailsIdChanges ==
    /\ sub.kind = "document"
    /\ sub.state \in {"live", "errored"}
    /\ sub.cancels = 0
    /\ \E id \in DocIds \ {sub.id} :
          /\ sub' = Subscribed("document", id, <<>>)
          /\ snapshotListeners' =
                (snapshotListeners \ {Target(sub)}) \cup {Target(sub')}
    /\ isLoading' = TRUE
    /\ error' = None
    /\ UNCHANGED <<listing, agentProfile, agentFetches>>
    /\ DetailsFrame

\* The data callback runs for a snapshot: setListing(data) and, when the
\* listing has an agentId, await getDocument(profile of data.agentId);
\* setError("Listing not found.") for null.  setIsLoading(false) follows the
\* await.
DetailsSnapshot ==
    /\ sub.kind = "document"
    /\ Emits(DocumentView(sub.id).value)
    /\ BagCardinality(agentFetches) < MaxEmissions
    /\ sub' = Receive(sub, DocumentView(sub.id))
    /\ IF docs[sub.id] = NoDoc
       THEN /\ error' = "ListingNotFound"
            /\ isLoading' = FALSE
            /\ UNCHANGED <<listing, agentFetches>>
       ELSE /\ listing' = [id |-> sub.id, agentId |-> docs[sub.id].agentId]
            /\ IF docs[sub.id].agentId = None
               THEN isLoading' = FALSE /\ UNCHANGED agentFetches
               ELSE /\ agentFetches' = agentFetches (+) SetToBag({listing'})
                    /\ UNCHANGED isLoading
            /\ UNCHANGED error
    /\ UNCHANGED <<agentProfile, snapshotListeners>>
    /\ DetailsFrame

\* getDocument resolved for a suspended callback: setAgentProfile(profile),
\* then setIsLoading(false).
AgentFetchDone(f) ==
    /\ BagIn(f, agentFetches)
    /\ agentFetches' = agentFetches (-) SetToBag({f})
    /\ agentProfile' = ProfileView(f.agentId)
    /\ isLoading' = FALSE
    /\ UNCHANGED <<listing, error, sub, snapshotListeners>>
    /\ DetailsFrame

\* getDocument rejected: the catch runs setAgentProfile(null).
AgentFetchRejected(f) ==
    /\ BagIn(f, agentFetches)
    /\ agentFetches' = agentFetches (-) SetToBag({f})
    /\ agentProfile' = NoProfile
    /\ isLoading' = FALSE
    /\ UNCHANGED <<listing, error, sub, snapshotListeners>>
    /\ DetailsFrame

\* The listener fails: onError sets the error and ends the loading.
DetailsListenerError ==
    /\ sub.kind = "document"
    /\ Target(sub) \in snapshotListeners
    /\ sub' = [Receive(sub, [to |-> "onError", error |-> "StoreError",
                             value |-> {}])
                 EXCEPT !.state = "errored"]
    /\ snapshotListeners' = snapshotListeners \ {Target(sub)}
    /\ error' = "LoadFailed"
    /\ isLoading' = FALSE
    /\ UNCHANGED <<listing, agentProfile, agentFetches>>
    /\ DetailsFrame

\* The screen unmounts: the cleanup cancels the subscription; the state of
\* the component is gone, and so is what suspended callbacks set later.
DetailsUnmount ==
    /\ sub.kind = "document"
    /\ sub.state \in {"noop", "live", "errored"}
    /\ sub.cancels = 0
    /\ sub' = Cancelled(sub)
    /\ snapshotListeners' = snapshotListeners \ {Target(sub)}
    /\ listing' = NoListing
    /\ agentProfile' = NoProfile
    /\ isLoading' = TRUE
    /\ error' = None
    /\ agentFetches' = EmptyBag
    /\ DetailsFrame

\* RemoteRecordStore: an agent (or an administrator) writes or deletes a
\* listing.
ListingWrite ==
    /\ Loaded
    /\ \E id \in DocIds, d \in Listings \cup {NoDoc} :
          /\ docs[id] # d
          /\ docs' = [docs EXCEPT ![id] = d]
    /\ UNCHANGED <<config, fsInit, db, storeCalls, fsOp>>
    /\ UNCHANGED <<provider, observers, listens, projector, registration,
                   screens>>

DetailsInit ==
    /\ SignedIn("u1", "renter")
    /\ profiles = [u \in Uids |-> IF u = "u1" THEN "renter" ELSE "agent"]
    /\ Unobserved
    /\ config \in {"valid", "noProjectId"}
    /\ fsInit = "load"
    /\ db = FALSE
    /\ docs \in [DocIds -> Listings \cup {NoDoc}]
    /\ storeCalls = 0
    /\ fsOp = NoOp
    /\ ListensIdle
    /\ ProjectorIdle
    /\ RegistrationIdle
    /\ ScreensIdle

DetailsNext ==
    \/ ModuleBody
    \/ DetailsEffect
    \/ DetailsIdChanges
    \/ DetailsSnapshot
    \/ \E f \in Fetches : AgentFetchDone(f)
    \/ \E f \in Fetches : AgentFetchRejected(f)
    \/ DetailsListenerError
    \/ DetailsUnmount
    \/ ListingWrite

DetailsSpec == DetailsInit /\ [][DetailsNext]_vars


\* ------------------------------------------- AgentListingsScreen (agent)
\* The array [field, operator, value]: its items are at 0, 1 and 2, and it
\* has no property field, operator or value.
ArrayCondition(f, o, v) ==
    [field |-> Undefined, operator |-> Undefined, value |-> Undefined,
     items |-> <<f, o, v>>]

\* The focus effect: no userId, or listenToCollection(listingsPath,
\* [['agentId', '==', userId]], ...), whose onError runs at once when db is
\* undefined.
AgentListingsFocus ==
    /\ Loaded
    /\ sub.state = "none"
    /\ IF userId = None
       THEN /\ error' = "NotAuthenticated"
            /\ isLoading' = FALSE
            /\ UNCHANGED listens
       ELSE /\ ListenToCollection(
                  <<ArrayCondition("agentId", "==", userId)>>, TRUE)
            /\ error' = IF DbUndefined THEN "LoadFailed" ELSE None
            /\ isLoading' = ~DbUndefined
    /\ UNCHANGED <<listing, agentProfile, agentFetches>>
    /\ DetailsFrame

\* The screen loses focus: the cleanup the effect returned unsubscribes.
AgentListingsBlur ==
    /\ sub.kind = "collection"
    /\ sub.state \in {"noop", "live", "errored"}
    /\ sub' = NoSub
    /\ snapshotListeners' = snapshotListeners \ {Target(sub)}
    /\ UNCHANGED details
    /\ DetailsFrame

AgentListingsInit ==
    /\ \E u \in Uids :
          /\ SignedIn(u, "agent")
          /\ profiles = [w \in Uids |-> IF w = u THEN "agent" ELSE "renter"]
    /\ Unobserved
    /\ config \in {"valid", "noProjectId"}
    /\ fsInit = "load"
    /\ db = FALSE
    /\ docs \in [DocIds -> Listings \cup {NoDoc}]
    /\ storeCalls = 0
    /\ fsOp = NoOp
    /\ ListensIdle
    /\ ProjectorIdle
    /\ RegistrationIdle
    /\ ScreensIdle

AgentListingsNext ==
    \/ ModuleBody
    \/ AgentListingsFocus
    \/ AgentListingsBlur
    \/ ListingWrite

AgentListingsSpec == AgentListingsInit /\ [][AgentListingsNext]_vars


\* ------------------------------------------- app/_layout.jsx (root layout)
\* The branch of the redirect effect taken for an authenticated Session.
RoleGroup ==
    IF userRole = "renter" THEN "/(renter)"
    ELSE IF userRole = "agent" THEN "/(agent)"
    ELSE "/(renter)"

\* Mutant of RedirectDecided: the effect does not wait for isLoadingAuth.
RedirectDecidedWhileLoading == fontsLoaded \/ fontError

\* if (!isLoadingAuth && (fontsLoaded || fontError))
RedirectDecided == ~isLoadingAuth /\ (fontsLoaded \/ fontError)

\* The argument of router.replace.
RedirectTarget == IF isAuthenticated THEN RoleGroup ELSE "/(auth)/login"

LayoutFrame ==
    /\ UNCHANGED <<provider, observers, service, listens, projector,
                   registration, details>>

\* useFonts settles: the font is loaded, or loading it failed.
FontsSettle ==
    /\ layoutMounted
    /\ RedirectFlushed
    /\ fonts = "loading"
    /\ fonts' \in {"loaded", "error"}
    /\ UNCHANGED <<layoutMounted, redirectDeps, route>>
    /\ LayoutFrame

\* The redirect effect runs: at mount, and after a render in which one of
\* its dependencies changed.
RedirectEffect ==
    /\ layoutMounted
    /\ redirectDeps # RedirectDeps
    /\ redirectDeps' = RedirectDeps
    /\ route' = IF RedirectDecided THEN RedirectTarget ELSE route
    /\ UNCHANGED <<layoutMounted, fonts>>
    /\ LayoutFrame

\* The AuthProvider with reliable collaborators and the root layout under
\* it: two accounts, the second possibly without a profile document, a
\* persisted identity or none, a cached role or none.
RoutingInit ==
    /\ ProcessStart
    /\ accounts = Uids
    /\ profiles["u1"] = "renter"
    /\ profiles["u2"] \in {"agent", None}
    /\ Unobserved
    /\ ServiceIdle
    /\ ListensIdle
    /\ ProjectorIdle
    /\ RegistrationIdle
    /\ DetailsStart
    /\ layoutMounted = TRUE
    /\ LayoutStart

RoutingNext ==
    \/ Initialize
    \/ Deliver
    \/ \E h \in Invocations : HandlerStep(h)
    \/ Login
    \/ Logout
    \/ FontsSettle
    \/ RedirectEffect

RoutingSpec == RoutingInit /\ [][RoutingNext]_vars


\* ============================================ subscriptions side by side
\* The root layout mounts the UserProvider together with the AuthProvider
\* (app/_layout.jsx lines 129-133), and firestoreService is loaded by the
\* screens that import it.  The process starts with the renter u1 persisted
\* in the IdentityProvider and its role cached; a screen holds a
\* listenToDocument or listenToCollection subscription of firestoreService
\* while the UserProvider holds its profile listener, and the AuthProvider
\* goes on: the Session changes with the bootstrap, logout, login and their
\* notifications.  The second account has no profile document.
SubscriptionsInit ==
    /\ ProcessStart
    /\ accounts = Uids
    /\ authUser = "u1"
    /\ roleCache = "renter"
    /\ profiles = [u \in Uids |-> IF u = "u1" THEN "renter" ELSE None]
    /\ Unobserved
    /\ config \in {"valid", "noProjectId"}
    /\ fsInit = "load"
    /\ db = FALSE
    /\ docs = [d \in DocIds |-> IF d = "d1" THEN SeedDoc ELSE NoDoc]
    /\ storeCalls = 0
    /\ fsOp = NoOp
    /\ ListensIdle
    /\ RegistrationIdle
    /\ ScreensIdle
    /\ mounted = TRUE
    /\ ProjectorStart

SubscriptionsNext ==
    \/ Initialize
    \/ ModuleBody
    \/ ListenToDocumentCall
    \/ ListenToCollectionCall
    \/ DocumentSnapshot
    \/ CollectionSnapshot
    \/ ListenerError
    \/ Cancel
    \/ Projector
    \/ Login
    \/ Logout
    \/ Deliver
    \/ \E h \in Invocations : HandlerStep(h)

SubscriptionsSpec == SubscriptionsInit /\ [][SubscriptionsNext]_vars


\* ================================================================ claims
\* The Session is Unauthenticated: no identity, no role, not authenticated.
Unauthenticated ==
    /\ user = None
    /\ userId = None
    /\ userRole = None
    /\ isAuthenticated = FALSE

\* Nothing is pending: no notification, no suspended callback, no command.
Quiescent ==
    /\ notifs = <<>>
    /\ handlers = EmptyBag
    /\ ~CommandInFlight

\* C1: in every reachable state, isAuthenticated = TRUE implies that userRole
\* is not null.
C1_AuthenticatedHasRole == isAuthenticated => userRole \in Roles

\* C1 witness: a command failed after the Session had been authenticated with
\* a role by a callback that is still running, and the invariant still holds.
C1_Witness ==
    /\ isAuthenticated
    /\ userRole \in Roles
    /\ cmd.pc = "done"
    /\ cmd.result = "ok"
    /\ handlers # EmptyBag

\* C2: in every reachable state, isAuthenticated = TRUE implies that user and
\* userId are not null.
C2_AuthenticatedHasIdentity ==
    isAuthenticated => (user # None /\ userId # None)

\* A suspended callback is stale when a later notification carried another
\* identity (or none) than the one it resolves.
Stale(h) == h.uid # None /\ h.uid # latest

\* C3: a step of a stale callback (its resolution completing) changes neither
\* userRole, isAuthenticated nor the RoleCache.
C3_StaleResultDiscarded ==
    [][\A h \in Suspended :
          (Stale(h) /\ HandlerStep(h))
              => UNCHANGED <<userRole, isAuthenticated, roleCache>>]_vars

\* The role-resolution passes awaiting the RoleCache read or the profile
\* fetch: callbacks at getItemAsync / getDoc, and login at getDoc.
Resolving ==
    [h \in {x \in Suspended : x.pc \in {"getItem", "getDoc"}} |-> handlers[h]]

ResolutionsInFlight ==
    BagCardinality(Resolving)
        + (IF cmd.op = "login" /\ cmd.pc = "getDoc" THEN 1 ELSE 0)

\* C4: at any time at most one role-resolution pass is in flight.
C4_OneResolutionInFlight == ResolutionsInFlight <= 1


\* C5: with the listener registered, once a login that found no profile has
\* raised its error and every notification and callback has run, the
\* IdentityProvider is signed out and the Session is Unauthenticated.
C5_ProfileMissingLogin ==
    (cmd.op = "login" /\ cmd.pc = "done" /\ cmd.result = "ProfileMissing"
        /\ listening /\ notifs = <<>> /\ handlers = EmptyBag)
        => (authUser = None /\ Unauthenticated)

\* The step in which a command rethrows its error to the caller.
Rethrows(op) ==
    /\ cmd.op = op
    /\ CommandInFlight
    /\ cmd'.pc = "done"
    /\ cmd'.result # "ok"

\* C6: at the moment login re-raises an error (listener registered), the
\* Session is Unauthenticated: user, userId and userRole null and
\* isAuthenticated false.
C6_FailedLoginResetsSession ==
    [][(listening /\ Rethrows("login")) => Unauthenticated']_vars

\* The step in which a command returns without error.
Returns(op) ==
    /\ cmd.op = op
    /\ CommandInFlight
    /\ cmd'.pc = "done"
    /\ cmd'.result = "ok"

\* C7: when register returns without error, the profile document of the new
\* identity holds the supplied role, the Session is authenticated with that
\* role, the RoleCache holds it, and no getDoc was issued since the sign-up.
C7_RegisterAdoptsLocally ==
    [][Returns("register") =>
          /\ profiles'[cmd.uid] = cmd.role
          /\ isAuthenticated' /\ userRole' = cmd.role
          /\ roleCache' = cmd.role
          /\ storeReads' = 0]_vars

\* C8: after register re-raised a profile-write failure (listener registered),
\* the IdentityProvider has no signed-in identity and the Session is
\* Unauthenticated.
C8_WriteFailureSignsOut ==
    (cmd.op = "register" /\ cmd.pc = "done" /\ cmd.result = "WriteFailed"
        /\ listening)
        => (authUser = None /\ Unauthenticated)

\* C9: after a logout whose sign-out succeeded, once the notifications and
\* callbacks have run and before any later command, the Session is
\* Unauthenticated and the RoleCache is empty.
C9_LogoutEndsUnauthenticated ==
    (cmd.op = "logout" /\ cmd.pc = "done" /\ cmd.result = "ok" /\ listening
        /\ Quiescent)
        => (Unauthenticated /\ roleCache = None)

\* C10: a step of logout changes neither user, userId, userRole nor
\* isAuthenticated (of the Session it writes only isLoadingAuth), and it
\* leaves the RoleCache alone.
C10_LogoutWritesOnlyLoading ==
    [][Logout =>
          UNCHANGED <<user, userId, userRole, isAuthenticated, roleCache>>]_vars

\* C10 witness: logout has returned after a successful sign-out and the
\* Session is still authenticated: the notification is not yet delivered.
C10_Witness ==
    /\ cmd.op = "logout" /\ cmd.pc = "done" /\ cmd.result = "ok"
    /\ isAuthenticated
    /\ user # None
    /\ authUser = None
    /\ notifs = <<None>>


\* C11: when a callback invocation for an identity resumes from its RoleCache
\* read and the RoleCache holds a role, that step adopts the cached role,
\* marks the Session authenticated, sets isLoadingAuth to false and ends the
\* invocation: no getDoc is issued.
C11_WarmStartFromCache ==
    [][\A h \in Invocations :
          (h.pc = "getItem" /\ roleCache # None /\ HandlerStep(h))
              => /\ userRole' = roleCache
                 /\ isAuthenticated' = TRUE
                 /\ isLoadingAuth' = FALSE
                 /\ handlers' = handlers (-) SetToBag({h})
                 /\ storeReads' = storeReads]_vars

\* C11 witness: a warm start has finished from the cache, before any
\* command, with no getDoc issued since process start.
C11_Witness ==
    /\ cmd = NoCommand
    /\ initState = "ready"
    /\ latest \in Uids
    /\ handlers = EmptyBag
    /\ isAuthenticated
    /\ userRole = roleCache
    /\ isLoadingAuth = FALSE
    /\ storeReads = 0

\* The run's bootstrap for identity u has finished without error: the first
\* notification carried u, nothing is pending, isLoadingAuth is false.
Bootstrapped(u) ==
    /\ initState = "ready"
    /\ cmd = NoCommand
    /\ latest = u
    /\ notifs = <<>>
    /\ handlers = EmptyBag
    /\ isLoadingAuth = FALSE

\* C12: a cold start (RoleCache item absent at process start) for an identity
\* whose profile exists ends, after exactly one getDoc, authenticated with
\* the profile's role and with that role in the RoleCache; and the start
\* that follows such a run for the same identity ends authenticated with
\* that role after no getDoc at all.
C12_ColdStartThenWarm ==
    \A u \in Uids :
        /\ (startCache = None /\ profiles[u] # None /\ Bootstrapped(u))
              => /\ storeReads = 1
                 /\ isAuthenticated /\ userId = u
                 /\ userRole = profiles[u]
                 /\ roleCache = profiles[u]
        /\ (prevRun = u /\ Bootstrapped(u))
              => /\ storeReads = 0
                 /\ isAuthenticated /\ userId = u
                 /\ userRole = profiles[u]

\* C12 witness: the start that followed a cold start for the same identity
\* has finished.
C12_Witness ==
    \E u \in Uids :
        /\ prevRun = u
        /\ Bootstrapped(u)
        /\ startCache = profiles[u]
        /\ storeReads = 0


\* C13: when the forced sign-out of a callback invocation that found no
\* profile document (after an empty RoleCache read) completes, the
\* IdentityProvider is signed out, the RoleCache is empty, the Session is
\* Unauthenticated and isLoadingAuth is false.
C13_ProfileMissingSignsOut ==
    [][\A h \in Invocations :
          (h.pc = "signOut" /\ HandlerStep(h))
              => /\ authUser' = None
                 /\ roleCache' = None
                 /\ Unauthenticated'
                 /\ isLoadingAuth' = FALSE]_vars

\* C14: when the RoleCache access or the getDoc that a callback invocation
\* for an identity awaits fails, the invocation ends with userRole cleared,
\* the RoleCache cleared and the Session Unauthenticated.
C14_ResolutionErrorClears ==
    [][\A h \in Invocations :
          (h.uid # None /\ h.pc # "signOut" /\ HandlerRejects(h))
              => (Unauthenticated' /\ roleCache' = None)]_vars

\* C15: before any command, once the first notification has been handed to
\* the callback and no invocation is suspended any more, however each ended,
\* isLoadingAuth is false.
C15_BootstrapTerminates ==
    (initState = "ready" /\ cmd = NoCommand /\ notifs = <<>>
        /\ handlers = EmptyBag)
        => isLoadingAuth = FALSE

\* C16: until initializeFirebase has run the Session is {user null, userId
\* null, role null, not authenticated, isLoadingAuth true}; and before any
\* command, a step that sets isLoadingAuth to false is either the catch of
\* initializeFirebase or the end of the one callback invocation started by
\* the first notification, with no notification waiting.
C16_LoadingUntilFirstResolution ==
    /\ [](initState = "start" => (Unauthenticated /\ isLoadingAuth))
    /\ [][(cmd = NoCommand /\ isLoadingAuth /\ ~isLoadingAuth')
            => \/ initState' = "catch"
               \/ /\ initState = "ready"
                  /\ notifs = <<>>
                  /\ BagCardinality(handlers) = 1
                  /\ handlers' = EmptyBag]_vars

\* C16 witness: the bootstrap ended after the first notification's callback
\* fetched the profile and wrote the RoleCache.
C16_Witness ==
    /\ cmd = NoCommand
    /\ initState = "ready"
    /\ storeReads = 1
    /\ handlers = EmptyBag
    /\ isAuthenticated
    /\ isLoadingAuth = FALSE

\* C17: when login returns without error, a getDoc was issued since its
\* sign-in, and userRole and the RoleCache both hold the role of the signed-in
\* identity's profile document.
C17_LoginAdoptsFetchedRole ==
    [][Returns("login") =>
          /\ storeReads' >= 1
          /\ userRole' = profiles[cmd.uid]
          /\ roleCache' = profiles[cmd.uid]]_vars

\* C18: whenever the Session is authenticated for an identity that has a
\* profile document and nothing is pending, userRole is the role of that
\* profile document.
C18_RoleMatchesProfile ==
    (isAuthenticated /\ Quiescent /\ userId # None
        /\ profiles[userId] # None)
        => userRole = profiles[userId]

\* C19: when a callback invocation for an identity adopts the role found in
\* the RoleCache, the item was written by a callback, login or register for
\* that same identity (items already present at process start aside).
C19_CacheScopedToIdentity ==
    [][\A h \in Invocations :
          (h.pc = "getItem" /\ roleCache # None /\ cacheOwner # "unknown"
              /\ HandlerStep(h))
              => cacheOwner = h.uid]_vars


\* C20: a step in which an operation of firestoreService is called while db
\* is undefined ends that operation with the store-uninitialized error, and
\* the store receives no call and keeps its documents; this holds for each
\* of the six operations.
C20_UninitializedStoreThrows ==
    [][(db = FALSE /\ fsOp' # fsOp)
          => /\ fsOp'.name \in CrudOps
             /\ fsOp'.pc = "done"
             /\ fsOp'.outcome = "StoreUninitialized"
             /\ UNCHANGED <<docs, storeCalls>>]_vars

\* C20 witness: with a valid configuration whose initialisation threw,
\* updateDocument was called and threw the store-uninitialized error; the
\* store holds a document and received no call.
C20_Witness ==
    /\ config = "valid"
    /\ fsInit = "done"
    /\ db = FALSE
    /\ fsOp.name = "updateDocument"
    /\ fsOp.outcome = "StoreUninitialized"
    /\ docs["d1"] # NoDoc
    /\ storeCalls = 0


\* C21: once listenToDocument or listenToCollection has been called while db
\* is undefined, onError has been called exactly once, with the
\* store-uninitialized error, the data callback never, the store holds no
\* listener, the call did not throw, and the function returned is a no-op:
\* calling it, any number of times, changes none of this.
C21_UninitializedListenRefused ==
    (sub.state # "none" /\ db = FALSE)
        => /\ sub.state = "noop"
           /\ sub.errors = 1
           /\ sub.error = "StoreUninitialized"
           /\ sub.emissions = 0
           /\ snapshotListeners = {}

\* C21 witness: listenToCollection was called with db undefined and the
\* function it returned has been called MaxCancels times.
C21_Witness ==
    /\ db = FALSE
    /\ sub.kind = "collection"
    /\ sub.state = "noop"
    /\ sub.error = "StoreUninitialized"
    /\ sub.cancels = MaxCancels


\* C22: while the configuration has no projectId, no component has issued a
\* call to the RemoteRecordStore: the AuthProvider no getDoc, the UserProvider
\* no profile listener, firestoreService no operation and no listener.
C22_MissingProjectIdNoStoreCall ==
    ConfigIncomplete
        => /\ storeReads = 0
           /\ \A h \in BagToSet(handlers) : h.pc # "getDoc"
           /\ profileListeners = EmptyBag
           /\ storeCalls = 0
           /\ snapshotListeners = {}


\* The documents of the collection that satisfy every condition of the list
\* the subscription was made with, each with its id.
MatchingAll ==
    {[id |-> d, data |-> docs[d]] :
        d \in {x \in DocIds :
                 /\ docs[x] # NoDoc
                 /\ \A i \in 1..Len(sub.conds) :
                       Satisfies(docs[x], sub.conds[i])}}

\* C23: every invocation of the data callback of a listenToCollection
\* subscription, the first included, delivers exactly the documents currently
\* in the collection that satisfy all the conditions of the list, each with
\* its id, as one full set; no document failing a condition is delivered.
C23_CollectionEmitsMatchingSet ==
    [][(sub.kind = "collection" /\ sub'.emissions = sub.emissions + 1)
          => sub'.last = MatchingAll]_vars

\* C23 witness: a subscription with two conditions on different fields has
\* delivered its second snapshot, which is the current matching set, is not
\* empty and leaves out a document of the collection.
C23_Witness ==
    /\ sub.kind = "collection"
    /\ Len(sub.conds) = MaxConds
    /\ sub.conds[1].field # sub.conds[2].field
    /\ sub.emissions >= 2
    /\ sub.last = MatchingAll
    /\ sub.last # {}
    /\ \E d \in DocIds : docs[d] # NoDoc /\ \A r \in sub.last : r.id # d


\* The document a listenToDocument subscription listens to, as the data
\* callback receives it: with its id, or null (the empty set) when absent.
CurrentDocument ==
    IF docs[sub.id] = NoDoc THEN {}
    ELSE {[id |-> sub.id, data |-> docs[sub.id]]}

\* C24: a listenToDocument subscription that is registered and has not
\* delivered the current document (none yet, or the document changed since)
\* has a snapshot to deliver; every snapshot goes to the data callback with
\* the current document and its id, or null when the document does not
\* exist, and never to onError.
C24_DocumentEmitsCurrentOrNull ==
    /\ []((/\ sub.kind = "document"
           /\ Target(sub) \in snapshotListeners
           /\ sub.emissions < MaxEmissions
           /\ (sub.emissions = 0 \/ sub.last # CurrentDocument))
             => ENABLED DocumentSnapshot)
    /\ [][(sub.kind = "document" /\ DocumentSnapshot)
             => /\ sub'.emissions = sub.emissions + 1
                /\ sub'.last = CurrentDocument
                /\ sub'.errors = sub.errors]_vars

\* C24 witness: the subscription delivered a document, then null after the
\* document was deleted; onError was never called.
C24_Witness ==
    /\ sub.kind = "document"
    /\ sub.state = "live"
    /\ sub.emissions >= 2
    /\ docs[sub.id] = NoDoc
    /\ sub.last = {}
    /\ sub.errors = 0


\* C25: the function returned by listenToDocument / listenToCollection can be
\* called again, after a first call as after an onError, without throwing
\* (the call is enabled and the subscription does not end up thrown); once
\* it has been called or onError has fired, the store holds no listener for
\* the subscription, a further call changes nothing, and the data callback
\* is not invoked again.
C25_CancelIdempotent ==
    /\ []((sub.cancels > 0 \/ sub.errors > 0)
             => /\ Target(sub) \notin snapshotListeners
                /\ sub.state # "threw"
                /\ sub.cancels < MaxCancels => ENABLED Cancel)
    /\ [][(sub.cancels > 0 \/ sub.errors > 0)
             => /\ sub'.emissions = sub.emissions
                /\ sub'.last = sub.last
                /\ sub'.state = sub.state
                /\ sub'.errors = sub.errors]_vars

\* C25 witness: a document subscription delivered a snapshot and was
\* cancelled; the document changed afterwards and the function was called a
\* second time.
C25_Witness ==
    /\ sub.kind = "document"
    /\ sub.state = "cancelled"
    /\ sub.cancels = MaxCancels
    /\ sub.emissions >= 1
    /\ sub.last # CurrentDocument


\* C26: a step in which the error callback of a live subscription runs (the
\* profile listener of the UserProvider, or a listener made through
\* firestoreService) ends that subscription only and leaves the Session as it
\* was: user, userId, userRole, isAuthenticated and isLoadingAuth keep their
\* values, as do the RoleCache and the other subscription with its listener.
C26_ListenerErrorLeavesSession ==
    [][/\ ProfileListenerError
          => /\ UNCHANGED <<user, userId, userRole, isAuthenticated,
                            isLoadingAuth, roleCache>>
             /\ BagCardinality(profileListeners')
                   = BagCardinality(profileListeners) - 1
             /\ UNCHANGED <<sub, snapshotListeners>>
       /\ ListenerError
          => /\ UNCHANGED <<user, userId, userRole, isAuthenticated,
                            isLoadingAuth, roleCache>>
             /\ sub'.state = "errored"
             /\ snapshotListeners' = snapshotListeners \ {Target(sub)}
             /\ UNCHANGED <<profileListeners, unsubscribe, userProfile,
                            profileError>>]_vars

\* C26 witness: the Session is authenticated as u1 with its role and both
\* subscriptions were live; the profile listener of u1 has failed, so the
\* UserProvider holds the error and no profile and has no listener left,
\* while the service's document subscription is still registered and has
\* delivered a snapshot.
C26_Witness ==
    /\ isAuthenticated
    /\ userId = "u1"
    /\ userRole = "renter"
    /\ ~isLoadingAuth
    /\ effectDeps = CurrentDeps
    /\ unsubscribe = "u1"
    /\ profileError = "StoreError"
    /\ userProfile = NoProfile
    /\ profileListeners = EmptyBag
    /\ sub.kind = "document"
    /\ sub.state = "live"
    /\ sub.emissions >= 1
    /\ Target(sub) \in snapshotListeners


\* C27: every write of firestoreService carries the store's server
\* timestamp: the document addDocument creates has it as createdAt, the
\* document setDocument or updateDocument writes has it as updatedAt,
\* whatever createdAt / updatedAt the caller gave in the data.
C27_WritesCarryServerTimestamp ==
    [][/\ AddDocumentDone => docs'[fsOp.id].createdAt = "server"
       /\ (SetDocumentDone \/ UpdateDocumentDone)
             => docs'[fsOp.id].updatedAt = "server"]_vars

\* C27 witness: updateDocument was called with an updatedAt taken from the
\* client clock, as handleSaveListing does, and the document written holds
\* the server timestamp.
C27_Witness ==
    /\ fsOp.name = "updateDocument"
    /\ fsOp.outcome = "ok"
    /\ fsOp.given.updatedAt = "client"
    /\ docs[fsOp.id].updatedAt = "server"
    /\ docs[fsOp.id].v = fsOp.given.v


\* C28: the profile document register has written carries a creation
\* timestamp assigned by the store's server clock, not a client clock value.
C28_ProfileCreatedAtFromServer ==
    profileDoc # NoProfileDoc => profileDoc.createdAt = "server"


\* C29: when logout's sign-out fails, the step that ends the call re-raises
\* the sign-out error and sets isLoadingAuth to false, and after it user,
\* userId, userRole, isAuthenticated and the RoleCache item are what they
\* were when logout was called.
C29_LogoutFailureRestores ==
    [][LogoutRejected(0)
          => /\ cmd'.result = "SignOutError"
             /\ isLoadingAuth' = FALSE
             /\ beforeCall.followed
                   => beforeCall = [followed |-> TRUE, user |-> user',
                                    userId |-> userId',
                                    userRole |-> userRole',
                                    isAuthenticated |-> isAuthenticated',
                                    roleCache |-> roleCache']]_vars


\* C30: at any time at most one profile listener of the UserProvider is
\* registered; once the effect has run for the Session's current userId,
\* isAuthenticated and isLoadingAuth, a registered listener is the one of the
\* current identity of an authenticated Session, so a snapshot can write
\* userProfile only with what the document listened to for that identity
\* holds; after the unmount no listener is registered.
C30_ProfileListenerCancelled ==
    /\ [](BagCardinality(profileListeners) <= 1)
    /\ []((mounted /\ effectDeps = CurrentDeps)
             => \A l \in BagToSet(profileListeners) :
                   l = userId /\ isAuthenticated)
    /\ [](~mounted => profileListeners = EmptyBag)
    /\ [][(ProfileSnapshot /\ effectDeps = CurrentDeps)
             => userProfile' = ListenedProfile(userId)]_vars

\* C30 witness: the Session is authenticated as u2 and the effect has run
\* for it: the only listener is the one of u2, while userProfile still holds
\* what the cancelled listener of u1 delivered.
C30_Witness ==
    /\ mounted
    /\ isAuthenticated
    /\ userId = "u2"
    /\ effectDeps = CurrentDeps
    /\ unsubscribe = "u2"
    /\ profileListeners = SetToBag({"u2"})
    /\ userProfile.id = "u1"


\* register is past its sign-up and has not failed: in flight at the
\* profile write or the RoleCache write, or returned without error.
RegisterSucceeding ==
    /\ cmd.op = "register"
    /\ cmd.pc \in {"setDoc", "setItem"} \/ (cmd.pc = "done" /\ cmd.result = "ok")

\* C31: with the listener registered, a step of the callback invocation for
\* the identity register has just created, in whatever order it runs with
\* register's profile write and RoleCache write, never signs that identity
\* out and never replaces or clears the registered role once adopted; and
\* once register has returned without error and no notification waits and no
\* callback is suspended, the Session is authenticated as the new identity
\* with the registered role and the IdentityProvider still holds it.
C31_RegisterSurvivesOwnNotification ==
    /\ [][\A h \in Invocations :
             (listening /\ RegisterSucceeding /\ h.uid = cmd.uid
                 /\ HandlerStep(h))
                 => /\ authUser' = authUser
                    /\ userRole = cmd.role => userRole' = cmd.role]_vars
    /\ []((RegisterSucceeding /\ cmd.pc = "done" /\ listening /\ Quiescent)
             => /\ isAuthenticated
                /\ userId = cmd.uid
                /\ userRole = cmd.role
                /\ authUser = cmd.uid)


\* C32: whenever initializeFirebase has registered the listener and no
\* command is in flight, no notification waits and no callback invocation
\* (with its role resolution) is suspended, the IdentityProvider holds a
\* signed-in identity exactly if the Session is authenticated, and then
\* userId is that identity.
C32_SessionMirrorsIdentityProvider ==
    (listening /\ Quiescent)
        => /\ (authUser # None) <=> isAuthenticated
           /\ isAuthenticated => userId = authUser


\* C33: while a login, register or logout call is in flight (called, and
\* neither returned nor thrown), isLoadingAuth is true.
C33_LoadingWhileCommandInFlight == CommandInFlight => isLoadingAuth


C35_ProfileBelongsToSession ==
    (mounted /\ effectDeps = CurrentDeps)
        => /\ userProfile # NoProfile
                 => (userProfile.id = userId /\ isAuthenticated)
           /\ ~isAuthenticated
                 => /\ userProfile = NoProfile
                    /\ ~isLoadingProfile
                    /\ profileError = None


\* The agentId of the listing in the most recently delivered snapshot of
\* the screen's live subscription (None: no snapshot yet, a null snapshot,
\* or a listing without agentId).
LatestAgentId ==
    IF sub.kind = "document" /\ sub.state = "live" /\ sub.emissions > 0
          /\ sub.last # {}
    THEN (CHOOSE r \in sub.last : TRUE).data.agentId
    ELSE None

\* C36: on the PropertyDetailsScreen, once no fetch is pending, the
\* agentProfile displayed for a latest snapshot that names an agent is that
\* agent's profile (or null when its fetch failed), in whatever order the
\* fetches of successive snapshots completed; and a fetch result is applied
\* to agentProfile only while the subscription that delivered its listing
\* is live, never after it was cancelled.
C36_AgentProfileFollowsLatestSnapshot ==
    /\ []((agentFetches = EmptyBag /\ LatestAgentId # None)
             => agentProfile \in {ProfileView(LatestAgentId), NoProfile})
    /\ [][\A f \in Fetches :
             AgentFetchDone(f) => (sub.state = "live" /\ sub.id = f.id)]_vars


\* C37: once the agent's listings screen has subscribed with the store
\* initialised, the listener it registered is constrained by
\* agentId == userId, and every listing it delivers has that agentId.
C37_OnlyOwnListingsDelivered ==
    (sub.kind = "collection" /\ sub.state # "none" /\ ~DbUndefined) =>
        /\ sub.state \in {"live", "errored"}
        /\ ApplyConditions({}, sub.conds) =
              {[field |-> "agentId", operator |-> "==", value |-> userId]}
        /\ \A d \in sub.last : d.data.agentId = userId


\* C38: the root layout redirects only when isLoadingAuth is false and the
\* fonts are settled; it then sends an unauthenticated Session to the login
\* screen, an authenticated agent to the agent group and an authenticated
\* renter to the renter group; no redirect to a role group is made while
\* bootstrapping or for an unauthenticated Session.
C38_RedirectFollowsSession ==
    [][redirectDeps' # redirectDeps =>
         /\ route' # route =>
              ~isLoadingAuth /\ (fontsLoaded \/ fontError)
         /\ (~isLoadingAuth /\ (fontsLoaded \/ fontError)) =>
              /\ ~isAuthenticated => route' = "/(auth)/login"
              /\ (isAuthenticated /\ userRole = "agent") =>
                   route' = "/(agent)"
              /\ (isAuthenticated /\ userRole = "renter") =>
                   route' = "/(renter)"
         /\ (route' # route /\ route' \in {"/(renter)", "/(agent)"}) =>
              isAuthenticated /\ ~isLoadingAuth]_vars

\* C38 witness: the redirect effect has sent an authenticated agent to the
\* agent group, after sending the unauthenticated Session to login.
C38_Witness ==
    /\ route = "/(agent)"
    /\ isAuthenticated
    /\ userRole = "agent"
    /\ ~isLoadingAuth
    /\ redirectDeps = RedirectDeps
    /\ cmd.op = "login"


\* C39: the Profile document register writes holds the supplied role and
\* email (standing for the fields copied as given) and the id of the new
\* identity; it holds the agent-specific fields as supplied when the role is
\* agent, and none of them for any other role, whatever agentDetails holds.
C39_ProfileDocumentFields ==
    profileDoc # NoProfileDoc =>
        /\ profileDoc.email = regArgs.email
        /\ profileDoc.role = regArgs.role
        /\ profileDoc.userId = regArgs.uid
        /\ regArgs.role = "agent" =>
             /\ profileDoc.agentAccountType =
                  regArgs.agentDetails.agentAccountType
             /\ profileDoc.lasreraNumber = regArgs.agentDetails.lasreraNumber
             /\ profileDoc.cacNumber = regArgs.agentDetails.cacNumber
        /\ regArgs.role # "agent" =>
             /\ profileDoc.agentAccountType = Absent
             /\ profileDoc.lasreraNumber = Absent
             /\ profileDoc.cacNumber = Absent

\* C39 witness: register was called for a renter with agentDetails supplied,
\* and the document written has no agent-specific field.
C39_Witness ==
    /\ profileDoc # NoProfileDoc
    /\ regArgs.role = "renter"
    /\ regArgs.agentDetails.agentAccountType = "company"
    /\ regArgs.agentDetails.lasreraNumber = "L1"
    /\ regArgs.agentDetails.cacNumber = "C1"
    /\ profileDoc.role = "renter"
    /\ profileDoc.agentAccountType = Absent

=============================================================================
